---- MODULE Spec2Model ----
(***************************************************************************)
(* Model of the trade-lifecycle core of goblin-forge:                       *)
(*   - TrailingStopManager  (src/src/execution/trailing_stop_manager.py)    *)
(*   - RealtimeAggregator   (src/src/data/realtime_aggregator.py)           *)
(*   - TradeDatabase        (src/src/data/trade_database.py)                *)
(*   - OrderManager         (src/src/execution/order_manager.py)            *)
(*   - IBDataManager        (src/src/data/ib_manager.py)                    *)
(* Prices are exact rationals [n, d] (d > 0, lowest terms), so that the     *)
(* percentage / ATR arithmetic of the trailing calculation is not rounded.  *)
(* Wall-clock fields written with datetime.now() (activation_time,          *)
(* last_adjustment_time, last_check_time, StopAdjustment.timestamp) are not *)
(* tracked: the order of adjustment_history is the order of the appends.    *)
(***************************************************************************)
EXTENDS Integers, Sequences, FiniteSets, TLC

VARIABLES
    \* ---- position book (order_manager.positions) and trailing controller
    positions,            \* symbol -> Position (open = FALSE: key absent)
    trailing_configs,     \* symbol -> TrailingConfig (present = FALSE: key absent)
    cfg_order,            \* insertion order of the keys of trailing_configs
    adjustment_history,   \* list of StopAdjustment
    last_adjustments,     \* return value of the last check_and_update_stops
    last_op,              \* the book / controller operation that ran last
    trail_steps,          \* number of book / controller operations so far
    \* ---- aggregator
    incomplete_bars,      \* symbol -> timeframe -> in-progress bar
    complete_bars,        \* symbol -> timeframe -> list of completed bars
    bar_counts,           \* symbol -> timeframe -> source bars in the in-progress bar
    agg_sources,          \* history: symbol -> source bars passed to add_bar, in arrival order
    add_result,           \* the last add_bar call: its arguments and what it returned
    n_added,              \* number of add_bar calls so far
    agg_lock,             \* owner of RealtimeAggregator._lock ("none": free)
    athreads,             \* feed thread -> position in its add_bar call
    \* ---- journal
    trades,               \* rows of the trades table, id = index
    jthreads,             \* thread -> state of its update_trade_mae_mfe call
    submitted,            \* history: trade id -> prices passed to update_trade_mae_mfe
    journal_op,           \* the journal operation that ran last
    db_file,              \* rows committed to the SQLite file at db_path
    \* ---- order manager
    allow_execution,      \* OrderManager.allow_execution (kill switch)
    require_paper_trading,\* OrderManager.require_paper_trading
    ib_session,           \* ib_manager as the order manager sees it: connected, port
    active_positions,     \* symbol -> TradeOrder (present = FALSE: key absent)
    order_history,        \* list of TradeOrder
    held_orders,          \* symbol -> the TradeOrder its caller got from create_order_from_setup
    placed_orders,        \* history: orders handed to ib.placeOrder
    om_op,                \* the order-manager call that ran last, with what it returned
    n_calls,              \* number of order-manager calls so far
    \* ---- broker connection manager
    ibm,                  \* fields of the IBDataManager object
    ib_threads,           \* thread -> position in its code (caller, heartbeat, reconnect threads)
    ib_lock,              \* owner of IBDataManager._lock ("none": free)
    ib_op                 \* the connect() / disconnect() call of the caller that returned last

vars == << positions, trailing_configs, cfg_order, adjustment_history,
           last_adjustments, last_op, trail_steps,
           incomplete_bars, complete_bars, bar_counts, agg_sources,
           add_result, n_added, agg_lock, athreads,
           trades, jthreads, submitted, journal_op, db_file,
           allow_execution, require_paper_trading, ib_session, active_positions,
           order_history, held_orders, placed_orders, om_op, n_calls,
           ibm, ib_threads, ib_lock, ib_op >>

trailVars == << positions, trailing_configs, cfg_order, adjustment_history,
                last_adjustments, last_op, trail_steps >>

aggVars == << incomplete_bars, complete_bars, bar_counts, agg_sources,
              add_result, n_added, agg_lock, athreads >>

journalVars == << trades, jthreads, submitted, journal_op, db_file >>

orderVars == << allow_execution, require_paper_trading, ib_session, active_positions,
                order_history, held_orders, placed_orders, om_op, n_calls >>

ibVars == << ibm, ib_threads, ib_lock, ib_op >>

(***************************************************************************)
(* Exact rational arithmetic (Python floats in the source).                 *)
(***************************************************************************)
Abs(x) == IF x < 0 THEN -x ELSE x

RECURSIVE GCD(_, _)
GCD(a, b) == IF b = 0 THEN a ELSE GCD(b, a % b)

Rat(n, d) ==
    LET g == GCD(Abs(n), Abs(d))
        s == IF d < 0 THEN -1 ELSE 1
    IN  IF n = 0 THEN [n |-> 0, d |-> 1]
        ELSE [n |-> (s * n) \div g, d |-> (s * d) \div g]

RInt(k) == [n |-> k, d |-> 1]
RLt(a, b) == a.n * b.d < b.n * a.d
RLe(a, b) == a.n * b.d <= b.n * a.d
RSub(a, b) == Rat(a.n * b.d - b.n * a.d, a.d * b.d)
RMul(a, b) == Rat(a.n * b.n, a.d * b.d)
RDiv(a, b) == Rat(a.n * b.d, a.d * b.n)
RAdd(a, b) == Rat(a.n * b.d + b.n * a.d, a.d * b.d)
RMax(a, b) == IF RLt(a, b) THEN b ELSE a

(***************************************************************************)
(* Inputs of the position book and the trailing controller.                 *)
(***************************************************************************)
Symbols == {"AAPL"}
Sides == {"BUY", "SELL"}
EntryPrices == {100}
Prices == {90, 100, 110, 120}
StopInputs == {90, 99, 110}
TrailingTypes == {"percentage", "atr", "invalid"}
TrailingAmounts == {-1, 0, 10}
ActivationPcts == {[n |-> 5, d |-> 1]}
MinTrails == {[n |-> 1, d |-> 200], [n |-> 1, d |-> 5]}
AtrValues == {0, 2}
MaxSteps == 7

INF == 1000000

NoStop == [has |-> FALSE, n |-> 0, d |-> 1]
SomeStop(r) == [has |-> TRUE, n |-> r.n, d |-> r.d]
StopRat(st) == [n |-> st.n, d |-> st.d]

\* Position(symbol, side, quantity, entry_price, stop_price, current_price):
\* the record the tests install in order_manager.positions.
NoPosition ==
    [open |-> FALSE, side |-> "BUY", entry_price |-> 0, current_price |-> 0,
     stop_price |-> NoStop]

Position(side, entry, stop, cur) ==
    [open |-> TRUE, side |-> side, entry_price |-> entry, current_price |-> cur,
     stop_price |-> stop]

\* TrailingConfig dataclass, with its defaults.
NoConfig ==
    [present |-> FALSE, trailing_type |-> "percentage", trailing_amount |-> 0,
     activation_profit_pct |-> [n |-> 0, d |-> 1],
     min_trail_amount |-> [n |-> 0, d |-> 1],
     enabled |-> FALSE, activated |-> FALSE, activation_price |-> 0,
     adjustment_count |-> 0, highest_price |-> 0, lowest_price |-> INF]

TrailingConfig(ttype, amount, act, mintrail) ==
    [present |-> TRUE, trailing_type |-> ttype, trailing_amount |-> amount,
     activation_profit_pct |-> act, min_trail_amount |-> mintrail,
     enabled |-> TRUE, activated |-> FALSE, activation_price |-> 0,
     adjustment_count |-> 0, highest_price |-> 0, lowest_price |-> INF]

\* `position.stop_price or 0.0`
StopOrZero(st) == IF st.has THEN StopRat(st) ELSE RInt(0)

\* profit_pct >= activation_profit_pct, with
\* profit_pct = (current - entry) / entry * 100 (BUY), (entry - current) / entry * 100 (SELL)
ProfitReached(side, entry, cur, act) ==
    IF side = "BUY"
    THEN RLe(act, Rat((cur - entry) * 100, entry))
    ELSE RLe(act, Rat((entry - cur) * 100, entry))

\* trail_distance_pct, before the minimum is enforced
TrailDistance(cfg, atr, cur) ==
    IF cfg.trailing_type = "percentage" \/ atr = 0
    THEN Rat(cfg.trailing_amount, 100)
    ELSE Rat(atr * cfg.trailing_amount, cur)

\* the noise filter left out: no improvement counts as too small
SmallImprovement_Never(diff, current_stop) == FALSE

\* the improvement over current_stop is below 0.01 %
SmallImprovement(diff, current_stop) ==
    RLt(RMul(RDiv(diff, current_stop), RInt(100)), [n |-> 1, d |-> 100])

\* mutant: the activation check is repeated on every call and clears the flag
\* when the profit has fallen back below the threshold
calculate_new_stop_price_Rearming(cfg, atr, cur, side, entry, current_stop) ==
    IF ~ProfitReached(side, entry, cur, cfg.activation_profit_pct)
    THEN [cfg |-> [cfg EXCEPT !.activated = FALSE], ret |-> NoStop]
    ELSE [cfg |-> [cfg EXCEPT !.activated = TRUE, !.activation_price = cur,
                              !.highest_price = cur, !.lowest_price = cur],
          ret |-> NoStop]

\* _calculate_new_stop_price: the updated config and the returned stop (has = FALSE: None)
calculate_new_stop_price(cfg, atr, cur, side, entry, current_stop) ==
    IF ~cfg.activated /\ ~ProfitReached(side, entry, cur, cfg.activation_profit_pct)
    THEN [cfg |-> cfg, ret |-> NoStop]
    ELSE
      LET c1 == IF cfg.activated THEN cfg
                ELSE [cfg EXCEPT !.activated = TRUE, !.activation_price = cur,
                                 !.highest_price = cur, !.lowest_price = cur]
          c2 == IF side = "BUY"
                THEN IF cur > c1.highest_price
                     THEN [c1 EXCEPT !.highest_price = cur] ELSE c1
                ELSE IF cur < c1.lowest_price
                     THEN [c1 EXCEPT !.lowest_price = cur] ELSE c1
          trail == RMax(TrailDistance(c2, atr, cur), c2.min_trail_amount)
          one == RInt(1)
          new_stop == IF side = "BUY"
                      THEN RMul(RInt(c2.highest_price), RSub(one, trail))
                      ELSE RMul(RInt(c2.lowest_price), RAdd(one, trail))
          has_stop == RLt(RInt(0), current_stop)
          worse == IF side = "BUY" THEN RLe(new_stop, current_stop)
                   ELSE RLe(current_stop, new_stop)
          diff == IF side = "BUY" THEN RSub(new_stop, current_stop)
                  ELSE RSub(current_stop, new_stop)
      IN  IF has_stop /\ worse THEN [cfg |-> c2, ret |-> NoStop]
          ELSE IF has_stop /\ SmallImprovement(diff, current_stop)
               THEN [cfg |-> c2, ret |-> NoStop]
               ELSE [cfg |-> c2, ret |-> SomeStop(new_stop)]

\* StopAdjustment dataclass
StopAdjustment(symbol, old_stop, new_stop, trigger, cfg) ==
    [symbol |-> symbol, old_stop |-> old_stop, new_stop |-> StopRat(new_stop),
     trigger_price |-> trigger, trailing_type |-> cfg.trailing_type,
     trailing_amount |-> cfg.trailing_amount]

RemoveKey(order, s) == SelectSeq(order, LAMBDA x : x # s)

\* the loop iteration without the branch that disables a config whose position is gone
CheckOne_KeepsOrphan(st, s, pos, atr) ==
    LET cfg == st.cfgs[s]
        p == pos[s]
    IN  IF ~cfg.enabled THEN st
        ELSE IF ~p.open
        THEN st
        ELSE IF p.current_price = 0 THEN st
        ELSE
          LET r == calculate_new_stop_price(cfg, atr[s], p.current_price, p.side,
                                            p.entry_price, StopOrZero(p.stop_price))
          IN  IF ~r.ret.has THEN [st EXCEPT !.cfgs[s] = r.cfg]
              ELSE
                LET adj == StopAdjustment(s, p.stop_price, r.ret, p.current_price, r.cfg)
                IN  [st EXCEPT
                       !.cfgs[s] = [r.cfg EXCEPT !.adjustment_count = @ + 1],
                       !.hist = Append(@, adj),
                       !.adjs = Append(@, adj)]

\* one iteration of the loop of check_and_update_stops, for the config of symbol s;
\* st = [cfgs, order, hist, adjs], pos = order_manager.positions, atr = ATR per symbol
CheckOne(st, s, pos, atr) ==
    LET cfg == st.cfgs[s]
        p == pos[s]
    IN  IF ~cfg.enabled THEN st
        ELSE IF ~p.open
        THEN [st EXCEPT !.cfgs[s] = NoConfig, !.order = RemoveKey(st.order, s)]
        ELSE IF p.current_price = 0 THEN st
        ELSE
          LET r == calculate_new_stop_price(cfg, atr[s], p.current_price, p.side,
                                            p.entry_price, StopOrZero(p.stop_price))
          IN  IF ~r.ret.has THEN [st EXCEPT !.cfgs[s] = r.cfg]
              ELSE
                LET adj == StopAdjustment(s, p.stop_price, r.ret, p.current_price, r.cfg)
                IN  [st EXCEPT
                       !.cfgs[s] = [r.cfg EXCEPT !.adjustment_count = @ + 1],
                       !.hist = Append(@, adj),
                       !.adjs = Append(@, adj)]

RECURSIVE CheckLoop(_, _, _, _)
CheckLoop(st, items, pos, atr) ==
    IF items = << >> THEN st
    ELSE CheckLoop(CheckOne(st, Head(items), pos, atr), Tail(items), pos, atr)

(***************************************************************************)
(* Operations of the trailing controller.                                   *)
(***************************************************************************)
\* every book / controller operation counts as one step of a bounded run
Step == trail_steps < MaxSteps /\ trail_steps' = trail_steps + 1

\* enable_trailing_stop without its two validation returns
enable_trailing_stop_NoValidation(s, ttype, amount, act, mintrail) ==
    /\ Step
    /\ trailing_configs' =
          [trailing_configs EXCEPT ![s] = TrailingConfig(ttype, amount, act, mintrail)]
    /\ cfg_order' = IF trailing_configs[s].present THEN cfg_order
                    ELSE Append(cfg_order, s)
    /\ last_op' = [op |-> "enable", symbol |-> s,
                   valid |-> ~(ttype \notin {"percentage", "atr"} \/ amount <= 0)]
    /\ UNCHANGED << positions, adjustment_history, last_adjustments, aggVars, journalVars, orderVars, ibVars >>

enable_trailing_stop(s, ttype, amount, act, mintrail) ==
    /\ Step
    /\ IF ttype \notin {"percentage", "atr"} \/ amount <= 0
       THEN UNCHANGED << trailing_configs, cfg_order >>
       ELSE /\ trailing_configs' =
                 [trailing_configs EXCEPT ![s] = TrailingConfig(ttype, amount, act, mintrail)]
            /\ cfg_order' = IF trailing_configs[s].present THEN cfg_order
                            ELSE Append(cfg_order, s)
    /\ last_op' = [op |-> "enable", symbol |-> s,
                   valid |-> ~(ttype \notin {"percentage", "atr"} \/ amount <= 0)]
    /\ UNCHANGED << positions, adjustment_history, last_adjustments, aggVars, journalVars, orderVars, ibVars >>

disable_trailing_stop(s) ==
    /\ Step
    /\ IF trailing_configs[s].present
       THEN /\ trailing_configs' = [trailing_configs EXCEPT ![s] = NoConfig]
            /\ cfg_order' = RemoveKey(cfg_order, s)
       ELSE UNCHANGED << trailing_configs, cfg_order >>
    /\ last_op' = [op |-> "disable", symbol |-> s]
    /\ UNCHANGED << positions, adjustment_history, last_adjustments, aggVars, journalVars, orderVars, ibVars >>

check_and_update_stops(atr) ==
    LET st == CheckLoop([cfgs |-> trailing_configs, order |-> cfg_order,
                         hist |-> adjustment_history, adjs |-> << >>],
                        cfg_order, positions, atr)
    IN  /\ Step
        /\ trailing_configs' = st.cfgs
        /\ cfg_order' = st.order
        /\ adjustment_history' = st.hist
        /\ last_adjustments' = st.adjs
        /\ last_op' = [op |-> "check", atr |-> atr,
                       retired |-> {s \in Symbols : trailing_configs[s].present
                                                     /\ ~st.cfgs[s].present}]
        /\ UNCHANGED << positions, aggVars, journalVars, orderVars, ibVars >>

(***************************************************************************)
(* The position book, as the controller and its tests use it.               *)
(***************************************************************************)
\* order_manager.positions[symbol] = Position(...)
install_position(s, side, entry, stop, cur) ==
    /\ ~positions[s].open
    /\ Step
    /\ positions' = [positions EXCEPT ![s] = Position(side, entry, stop, cur)]
    /\ last_op' = [op |-> "install", symbol |-> s]
    /\ UNCHANGED << trailing_configs, cfg_order, adjustment_history, last_adjustments,
                    aggVars, journalVars, orderVars, ibVars >>

\* del order_manager.positions[symbol]
remove_position(s) ==
    /\ positions[s].open
    /\ Step
    /\ positions' = [positions EXCEPT ![s] = NoPosition]
    /\ last_op' = [op |-> "remove", symbol |-> s]
    /\ UNCHANGED << trailing_configs, cfg_order, adjustment_history, last_adjustments,
                    aggVars, journalVars, orderVars, ibVars >>

\* position.current_price = price
set_current_price(s, price) ==
    /\ positions[s].open
    /\ Step
    /\ positions[s].current_price # price
    /\ positions' = [positions EXCEPT ![s].current_price = price]
    /\ last_op' = [op |-> "price", symbol |-> s]
    /\ UNCHANGED << trailing_configs, cfg_order, adjustment_history, last_adjustments,
                    aggVars, journalVars, orderVars, ibVars >>

\* a price tick followed at once by an evaluation:
\* position.current_price = price; manager.check_and_update_stops()
evaluate_tick(s, price, atr) ==
    LET pos == [positions EXCEPT ![s].current_price = price]
        st == CheckLoop([cfgs |-> trailing_configs, order |-> cfg_order,
                         hist |-> adjustment_history, adjs |-> << >>],
                        cfg_order, pos, atr)
    IN  /\ positions[s].open
        /\ Step
        /\ positions' = pos
        /\ trailing_configs' = st.cfgs
        /\ cfg_order' = st.order
        /\ adjustment_history' = st.hist
        /\ last_adjustments' = st.adjs
        /\ last_op' = [op |-> "tick", symbol |-> s, price |-> price]
        /\ UNCHANGED << aggVars, journalVars, orderVars, ibVars >>

\* mutant: a stop equal to the current one is accepted as well
StopAccepted_NotStrict(p, new_stop) ==
    \/ ~p.stop_price.has
    \/ p.side = "BUY" /\ RLe(StopRat(p.stop_price), new_stop)
    \/ p.side = "SELL" /\ RLe(new_stop, StopRat(p.stop_price))

\* OrderManager.modify_stop: the monotonic acceptance rule
StopAccepted(p, new_stop) ==
    \/ ~p.stop_price.has
    \/ p.side = "BUY" /\ RLt(StopRat(p.stop_price), new_stop)
    \/ p.side = "SELL" /\ RLt(new_stop, StopRat(p.stop_price))

modify_stop(s, new_stop) ==
    /\ positions[s].open
    /\ Step
    /\ IF StopAccepted(positions[s], new_stop)
       THEN positions' = [positions EXCEPT ![s].stop_price = SomeStop(new_stop)]
       ELSE UNCHANGED positions
    /\ last_op' = [op |-> "modify_stop", symbol |-> s, new_stop |-> new_stop,
                   result |-> StopAccepted(positions[s], new_stop)]
    /\ UNCHANGED << trailing_configs, cfg_order, adjustment_history, last_adjustments,
                    aggVars, journalVars, orderVars, ibVars >>

\* OrderManager.update_position_price, called by the aggregator on every completion:
\* a silent no-op when the symbol has no open position
update_position_price(pos, s, price) ==
    IF s \in DOMAIN pos /\ pos[s].open
    THEN [pos EXCEPT ![s].current_price = price]
    ELSE pos

(***************************************************************************)
(* The aggregator.  Timestamps are whole unix seconds.                      *)
(***************************************************************************)
AggSymbols == {"AAPL", "MSFT"}
\* the feed threads and the symbol each of them feeds
AggThreads == {"a1", "a2"}
FeedSymbol == [a1 |-> "AAPL", a2 |-> "MSFT"]
TargetTfs == << "1min", "5min" >>
TimeStamps == {0, 5, 60, 300}
MaxBars == 3

\* Timeframe.seconds
Seconds(tf) ==
    CASE tf = "5sec" -> 5
      [] tf = "1min" -> 60
      [] tf = "5min" -> 300
      [] tf = "15min" -> 900
      [] tf = "1h" -> 3600
      [] tf = "4h" -> 14400
      [] tf = "1d" -> 86400

\* Bar.__post_init__
BarValid(b) ==
    /\ b.high >= b.low
    /\ b.high >= b.open /\ b.high >= b.close
    /\ b.low <= b.open /\ b.low <= b.close
    /\ b.volume >= 0

Bar(ts, o, h, l, c, v, complete) ==
    [open |-> o, present |-> TRUE, high |-> h, low |-> l, close |-> c,
     volume |-> v, complete |-> complete, timestamp |-> ts]

NoBar ==
    [open |-> 0, present |-> FALSE, high |-> 0, low |-> 0, close |-> 0,
     volume |-> 0, complete |-> FALSE, timestamp |-> 0]

\* the source bars the feed delivers: OHLCV shapes that pass Bar.__post_init__
SourceShapes ==
    { [open |-> 2, high |-> 3, low |-> 2, close |-> 2, volume |-> 1],
      [open |-> 1, high |-> 2, low |-> 1, close |-> 1, volume |-> 2] }

SourceBar(ts, sh) == Bar(ts, sh.open, sh.high, sh.low, sh.close, sh.volume, FALSE)

\* _get_bar_boundary
get_bar_boundary(ts, tf) == (ts \div Seconds(tf)) * Seconds(tf)

\* _is_same_bar
is_same_bar(ts1, ts2, tf) == get_bar_boundary(ts1, tf) = get_bar_boundary(ts2, tf)

Max2(a, b) == IF a >= b THEN a ELSE b
Min2(a, b) == IF a <= b THEN a ELSE b

\* mutant: the merge keeps the close of the bar that opened the window
MergeBar_KeepsClose(cur, source_bar) ==
    [cur EXCEPT !.high = Max2(cur.high, source_bar.high),
                !.low = Min2(cur.low, source_bar.low),
                !.volume = cur.volume + source_bar.volume]

\* mutant: the merge takes the volume of the latest source bar
MergeBar_LastVolume(cur, source_bar) ==
    [cur EXCEPT !.high = Max2(cur.high, source_bar.high),
                !.low = Min2(cur.low, source_bar.low),
                !.close = source_bar.close,
                !.volume = source_bar.volume]

\* the in-progress bar after merging source_bar into it (the same_bar branch)
MergeBar(cur, source_bar) ==
    [cur EXCEPT !.high = Max2(cur.high, source_bar.high),
                !.low = Min2(cur.low, source_bar.low),
                !.close = source_bar.close,
                !.volume = cur.volume + source_bar.volume]

\* a fresh in-progress bar started from source_bar
StartBar(source_bar, tf) ==
    Bar(get_bar_boundary(source_bar.timestamp, tf), source_bar.open, source_bar.high,
        source_bar.low, source_bar.close, source_bar.volume, FALSE)

\* mutant: a merged source bar is not counted
CountAfterMerge_Forgets(n) == n

\* self._bar_counts[symbol][target_tf] += 1
CountAfterMerge(n) == n + 1

\* _aggregate_to_timeframe keeping only the latest completed bar of a timeframe
aggregate_to_timeframe_KeepsLatest(st, s, source_bar, tf) ==
    LET cur == st.inc[tf]
    IN  IF ~cur.present
        THEN [st |-> [st EXCEPT !.inc[tf] = StartBar(source_bar, tf), !.cnt[tf] = 1],
              completed |-> NoBar, num_bars |-> 0]
        ELSE IF is_same_bar(source_bar.timestamp, cur.timestamp, tf)
        THEN [st |-> [st EXCEPT !.inc[tf] = MergeBar(cur, source_bar),
                                !.cnt[tf] = CountAfterMerge(@)],
              completed |-> NoBar, num_bars |-> 0]
        ELSE
          LET done == Bar(cur.timestamp, cur.open, cur.high, cur.low, cur.close,
                          cur.volume, TRUE)
          IN  [st |-> [st EXCEPT !.comp[tf] = << done >>,
                                 !.pos = update_position_price(@, s, done.close),
                                 !.inc[tf] = StartBar(source_bar, tf),
                                 !.cnt[tf] = 1],
               completed |-> done, num_bars |-> st.cnt[tf]]

\* mutant: a completion is stored and returned without the position price update
aggregate_to_timeframe_NoForward(st, s, source_bar, tf) ==
    LET cur == st.inc[tf]
    IN  IF ~cur.present
        THEN [st |-> [st EXCEPT !.inc[tf] = StartBar(source_bar, tf), !.cnt[tf] = 1],
              completed |-> NoBar, num_bars |-> 0]
        ELSE IF is_same_bar(source_bar.timestamp, cur.timestamp, tf)
        THEN [st |-> [st EXCEPT !.inc[tf] = MergeBar(cur, source_bar),
                                !.cnt[tf] = CountAfterMerge(@)],
              completed |-> NoBar, num_bars |-> 0]
        ELSE
          LET done == Bar(cur.timestamp, cur.open, cur.high, cur.low, cur.close,
                          cur.volume, TRUE)
          IN  [st |-> [st EXCEPT !.comp[tf] = Append(@, done),
                                 !.inc[tf] = StartBar(source_bar, tf),
                                 !.cnt[tf] = 1],
               completed |-> done, num_bars |-> st.cnt[tf]]

\* _aggregate_to_timeframe on the state st = [inc, comp, cnt, pos] of one symbol:
\* the new state, the completed bar it returns (NoBar: None) and the num_bars
\* it logs for that bar
aggregate_to_timeframe(st, s, source_bar, tf) ==
    LET cur == st.inc[tf]
    IN  IF ~cur.present
        THEN [st |-> [st EXCEPT !.inc[tf] = StartBar(source_bar, tf), !.cnt[tf] = 1],
              completed |-> NoBar, num_bars |-> 0]
        ELSE IF is_same_bar(source_bar.timestamp, cur.timestamp, tf)
        THEN [st |-> [st EXCEPT !.inc[tf] = MergeBar(cur, source_bar),
                                !.cnt[tf] = CountAfterMerge(@)],
              completed |-> NoBar, num_bars |-> 0]
        ELSE
          LET done == Bar(cur.timestamp, cur.open, cur.high, cur.low, cur.close,
                          cur.volume, TRUE)
          IN  [st |-> [st EXCEPT !.comp[tf] = Append(@, done),
                                 !.pos = update_position_price(@, s, done.close),
                                 !.inc[tf] = StartBar(source_bar, tf),
                                 !.cnt[tf] = 1],
               completed |-> done, num_bars |-> st.cnt[tf]]

\* what on_bar_complete does when it is called: cb = "none" (no callback set),
\* "ok" (returns) or "raise" (raises an Exception)
Callbacks == {"none", "ok", "raise"}

\* mutant: no try / except around the callback
callback_outcome_Propagates(cb) ==
    IF cb = "raise" THEN "propagated" ELSE "returned"

\* the try / except Exception around self.on_bar_complete(...): a raise is logged
callback_outcome(cb) ==
    IF cb = "raise" THEN "logged" ELSE "returned"

\* mutant: the dict of completions is replaced, not extended, by a completion
RECURSIVE AddBarLoop_KeepsLast(_, _, _, _, _)
AddBarLoop_KeepsLast(acc, s, source_bar, tfs, cb) ==
    IF tfs = << >> THEN acc
    ELSE LET r == aggregate_to_timeframe(acc.st, s, source_bar, Head(tfs))
             called == r.completed.present /\ cb # "none"
         IN  IF called /\ callback_outcome(cb) = "propagated"
             THEN [st |-> r.st, out |-> [tf \in DOMAIN acc.out |-> NoBar],
                   num_bars |-> [acc.num_bars EXCEPT ![Head(tfs)] = r.num_bars],
                   error |-> "exception", raised |-> TRUE]
             ELSE AddBarLoop_KeepsLast(
                             [st |-> r.st,
                              out |-> IF r.completed.present
                                      THEN [tf \in DOMAIN acc.out |->
                                              IF tf = Head(tfs) THEN r.completed ELSE NoBar]
                                      ELSE acc.out,
                              num_bars |-> [acc.num_bars EXCEPT ![Head(tfs)] = r.num_bars],
                              error |-> acc.error,
                              raised |-> acc.raised \/ (called /\ cb = "raise")],
                             s, source_bar, Tail(tfs), cb)

\* the loop of add_bar over self.target_tfs; acc.out is the dict of completions,
\* acc.error = "exception" once an exception has left the loop
RECURSIVE AddBarLoop(_, _, _, _, _)
AddBarLoop(acc, s, source_bar, tfs, cb) ==
    IF tfs = << >> THEN acc
    ELSE LET r == aggregate_to_timeframe(acc.st, s, source_bar, Head(tfs))
             called == r.completed.present /\ cb # "none"
         IN  IF called /\ callback_outcome(cb) = "propagated"
             THEN [st |-> r.st, out |-> [tf \in DOMAIN acc.out |-> NoBar],
                   num_bars |-> [acc.num_bars EXCEPT ![Head(tfs)] = r.num_bars],
                   error |-> "exception", raised |-> TRUE]
             ELSE AddBarLoop([st |-> r.st,
                              out |-> [acc.out EXCEPT ![Head(tfs)] = r.completed],
                              num_bars |-> [acc.num_bars EXCEPT ![Head(tfs)] = r.num_bars],
                              error |-> acc.error,
                              raised |-> acc.raised \/ (called /\ cb = "raise")],
                             s, source_bar, Tail(tfs), cb)

TfSet == { TargetTfs[i] : i \in 1..Len(TargetTfs) }

\* the body of add_bar, run by a single caller from the lock to the return
AddBarEffect(s, source_bar, cb) ==
    LET r == AddBarLoop([st |-> [inc |-> incomplete_bars[s], comp |-> complete_bars[s],
                                 cnt |-> bar_counts[s], pos |-> positions],
                         out |-> [tf \in TfSet |-> NoBar],
                         num_bars |-> [tf \in TfSet |-> 0],
                         error |-> "none", raised |-> FALSE],
                        s, source_bar, TargetTfs, cb)
    IN  /\ incomplete_bars' = [incomplete_bars EXCEPT ![s] = r.st.inc]
        /\ complete_bars' = [complete_bars EXCEPT ![s] = r.st.comp]
        /\ bar_counts' = [bar_counts EXCEPT ![s] = r.st.cnt]
        /\ positions' = r.st.pos
        /\ agg_sources' = [agg_sources EXCEPT ![s] = Append(@, source_bar)]
        /\ add_result' = [symbol |-> s, bar |-> source_bar, completed |-> r.out,
                          num_bars |-> r.num_bars, error |-> r.error,
                          raised |-> r.raised]
        /\ n_added' = n_added + 1
        /\ UNCHANGED << agg_lock, athreads, trailing_configs, cfg_order,
                        adjustment_history, last_adjustments, last_op, trail_steps,
                        journalVars, orderVars, ibVars >>

add_bar(s, source_bar, cb) ==
    /\ n_added < MaxBars
    /\ AddBarEffect(s, source_bar, cb)

\* the 5-second feed of one session, prices in tenths: bar k is stamped
\* 09:30:00 + 5 k seconds and is 0.1 above bar k - 1, bar 1 (09:30:05) being
\* open 100.0, high 100.5, low 99.5, close 100.2, volume 1000; the feed may skip
\* bars and never reorders them
SessionOpen == 34200
SourceTf == "5sec"
MaxFeed == 14

FeedBar(k) ==
    Bar(SessionOpen + Seconds(SourceTf) * k, 999 + k, 1004 + k, 994 + k, 1001 + k, 1000, FALSE)

FeedIndex(b) == (b.timestamp - SessionOpen) \div Seconds(SourceTf)

feed_bar(s, k, cb) ==
    /\ k \in 0..(MaxFeed - 1)
    /\ IF agg_sources[s] = << >> THEN TRUE
       ELSE FeedIndex(agg_sources[s][Len(agg_sources[s])]) < k
    /\ AddBarEffect(s, FeedBar(k), cb)

\* reset taking its other branch: reset() of every symbol
reset_All(s) ==
    /\ agg_sources[s] # << >>
    /\ incomplete_bars' = [x \in AggSymbols |-> [tf \in TfSet |-> NoBar]]
    /\ complete_bars' = [x \in AggSymbols |-> [tf \in TfSet |-> << >>]]
    /\ bar_counts' = [x \in AggSymbols |-> [tf \in TfSet |-> 0]]
    /\ agg_sources' = [x \in AggSymbols |-> << >>]
    /\ UNCHANGED << add_result, n_added, agg_lock, athreads, trailVars, journalVars, orderVars, ibVars >>

\* reset(symbol)
reset(s) ==
    /\ agg_sources[s] # << >>
    /\ incomplete_bars' = [incomplete_bars EXCEPT ![s] = [tf \in TfSet |-> NoBar]]
    /\ complete_bars' = [complete_bars EXCEPT ![s] = [tf \in TfSet |-> << >>]]
    /\ bar_counts' = [bar_counts EXCEPT ![s] = [tf \in TfSet |-> 0]]
    /\ agg_sources' = [agg_sources EXCEPT ![s] = << >>]
    /\ UNCHANGED << add_result, n_added, agg_lock, athreads, trailVars, journalVars, orderVars, ibVars >>

\* clear_history(symbol, timeframe)
clear_history(s, tf) ==
    /\ complete_bars[s][tf] # << >>
    /\ complete_bars' = [complete_bars EXCEPT ![s][tf] = << >>]
    /\ UNCHANGED << incomplete_bars, bar_counts, agg_sources, add_result, n_added,
                    agg_lock, athreads, trailVars, journalVars, orderVars, ibVars >>

(***************************************************************************)
(* add_bar run by concurrent feed threads, one symbol per thread.  The      *)
(* steps of one call: enter `with self._lock`, one pass of the loop per     *)
(* target timeframe, the callback of a completion, and the return.          *)
(***************************************************************************)
IdleFeed == [pc |-> "idle", bar |-> NoBar, tfs |-> << >>, cb |-> "none",
             out |-> [tf \in TfSet |-> NoBar], num_bars |-> [tf \in TfSet |-> 0],
             raised |-> FALSE]

AllFeedsIdle == \A th \in AggThreads : athreads[th].pc = "idle"

\* mutant: the bars are kept in one slot, whatever the symbol
StateOf_OneSlot(inc, comp, cnt, pos, s) ==
    [inc |-> inc["AAPL"], comp |-> comp["AAPL"], cnt |-> cnt["AAPL"], pos |-> pos]

\* self._incomplete_bars[symbol], self._complete_bars[symbol], self._bar_counts[symbol]
StateOf(inc, comp, cnt, pos, s) ==
    [inc |-> inc[s], comp |-> comp[s], cnt |-> cnt[s], pos |-> pos]

\* `with self._lock:` entered by thread th (blocks while another thread owns it)
add_bar_enter(th, source_bar, cb) ==
    LET s == FeedSymbol[th]
    IN  /\ athreads[th].pc = "idle"
        /\ agg_lock = "none"
        /\ n_added < MaxBars
        /\ IF agg_sources[s] = << >> THEN TRUE
           ELSE agg_sources[s][Len(agg_sources[s])].timestamp < source_bar.timestamp
        /\ agg_lock' = th
        /\ athreads' = [athreads EXCEPT ![th] =
                          [pc |-> "loop", bar |-> source_bar, tfs |-> TargetTfs,
                           cb |-> cb, out |-> [tf \in TfSet |-> NoBar],
                           num_bars |-> [tf \in TfSet |-> 0], raised |-> FALSE]]
        /\ agg_sources' = [agg_sources EXCEPT ![s] = Append(@, source_bar)]
        /\ n_added' = n_added + 1
        /\ UNCHANGED << incomplete_bars, complete_bars, bar_counts, add_result,
                        trailVars, journalVars, orderVars, ibVars >>

\* one pass of the loop: _aggregate_to_timeframe for the next target timeframe
add_bar_aggregate(th) ==
    LET s == FeedSymbol[th]
        t == athreads[th]
        tf == Head(t.tfs)
        r == aggregate_to_timeframe(
                 StateOf(incomplete_bars, complete_bars, bar_counts, positions, s),
                 s, t.bar, tf)
        called == r.completed.present /\ t.cb # "none"
    IN  /\ t.pc = "loop"
        /\ t.tfs # << >>
        /\ incomplete_bars' = [incomplete_bars EXCEPT ![s] = r.st.inc]
        /\ complete_bars' = [complete_bars EXCEPT ![s] = r.st.comp]
        /\ bar_counts' = [bar_counts EXCEPT ![s] = r.st.cnt]
        /\ positions' = r.st.pos
        /\ athreads' = [athreads EXCEPT ![th] =
                          [t EXCEPT !.pc = IF called THEN "callback" ELSE "loop",
                                    !.tfs = IF called THEN t.tfs ELSE Tail(t.tfs),
                                    !.out = [t.out EXCEPT ![tf] = r.completed],
                                    !.num_bars = [t.num_bars EXCEPT ![tf] = r.num_bars]]]
        /\ UNCHANGED << agg_lock, agg_sources, add_result, n_added,
                        trailing_configs, cfg_order, adjustment_history,
                        last_adjustments, last_op, trail_steps, journalVars, orderVars, ibVars >>

\* self.on_bar_complete(...) returns or raises, inside the with block
add_bar_callback_done(th) ==
    LET t == athreads[th]
    IN  /\ t.pc = "callback"
        /\ IF callback_outcome(t.cb) = "propagated"
           THEN /\ agg_lock' = "none"
                /\ athreads' = [athreads EXCEPT ![th] = IdleFeed]
                /\ add_result' = [symbol |-> FeedSymbol[th], bar |-> t.bar,
                                  completed |-> [tf \in TfSet |-> NoBar],
                                  num_bars |-> t.num_bars,
                                  error |-> "exception", raised |-> TRUE]
           ELSE /\ athreads' = [athreads EXCEPT ![th] =
                                  [t EXCEPT !.pc = "loop", !.tfs = Tail(t.tfs),
                                            !.raised = t.raised \/ t.cb = "raise"]]
                /\ UNCHANGED << agg_lock, add_result >>
        /\ UNCHANGED << incomplete_bars, complete_bars, bar_counts, agg_sources,
                        n_added, trailVars, journalVars, orderVars, ibVars >>

\* `return completed`: the with block is left and the lock released
add_bar_return(th) ==
    LET t == athreads[th]
    IN  /\ t.pc = "loop"
        /\ t.tfs = << >>
        /\ agg_lock' = "none"
        /\ athreads' = [athreads EXCEPT ![th] = IdleFeed]
        /\ add_result' = [symbol |-> FeedSymbol[th], bar |-> t.bar,
                          completed |-> t.out, num_bars |-> t.num_bars,
                          error |-> "none", raised |-> t.raised]
        /\ UNCHANGED << incomplete_bars, complete_bars, bar_counts, agg_sources,
                        n_added, trailVars, journalVars, orderVars, ibVars >>

(***************************************************************************)
(* The journal (TradeDatabase).  A NULL column is << >>, a value v is <<v>>. *)
(* Times are whole seconds.                                                 *)
(***************************************************************************)
Null == << >>
Some(v) == << v >>
Val(x) == x[1]

MaxTrades == 1
MaxCurveTrades == 3
StartingEquities == {100000}
MaxNotes == 1
Threads == {"t1", "t2"}
JournalSides == {"BUY", "SELL"}
EntryTimes == {0}
JournalEntryPrices == {100}
Quantities == {10}
RiskAmounts == {0, 200}
ExitTimes == {90, 150}
ExitPrices == {90, 110}
ExitReasons == {"STOP"}
Commissions == {0, 2}
MaeMfeInputs == {Null, Some(-50)}
ExitNotes == {Null, << "closed" >>}
TickPrices == {90, 110, 120}
NoteTexts == {"n1"}

\* int(x / y) of Python: truncation toward zero
TruncDiv(x, y) == IF x >= 0 THEN x \div y ELSE -((-x) \div y)

\* the row INSERTed by record_trade_entry
EntryRow(symbol, side, entry_time, entry_price, quantity, stop, target, risk) ==
    [symbol |-> symbol, side |-> side, entry_time |-> entry_time,
     entry_price |-> entry_price, quantity |-> quantity,
     stop_price |-> Some(stop), target_price |-> Some(target), risk_amount |-> risk,
     exit_time |-> Null, exit_price |-> Null, exit_reason |-> Null,
     commission |-> Some(0), actual_stop |-> Null, actual_target |-> Null,
     realized_pnl |-> Null, pnl_pct |-> Null, risk_reward_ratio |-> Null,
     hold_time_minutes |-> Null, mae |-> Some(0), mfe |-> Some(0), notes |-> << >>]

\* get_trade: the row, or None (found = FALSE)
get_trade(rows, id) ==
    IF id \in 1..Len(rows) THEN [found |-> TRUE, row |-> rows[id]]
    ELSE [found |-> FALSE, row |-> << >>]

\* mutant: the WHERE clause is missing
get_open_trades_NoFilter(rows) == { id \in 1..Len(rows) : TRUE }

\* get_open_trades: SELECT * FROM trades WHERE exit_time IS NULL (ids of the rows)
get_open_trades(rows) == { id \in 1..Len(rows) : rows[id].exit_time = Null }

\* get_closed_trades(): SELECT * FROM trades WHERE exit_time IS NOT NULL
get_closed_trades(rows) == { id \in 1..Len(rows) : rows[id].exit_time # Null }

\* (exit - entry) * qty for BUY, (entry - exit) * qty otherwise
Pnl(trade, price) ==
    IF trade.side = "BUY"
    THEN (price - trade.entry_price) * trade.quantity
    ELSE (trade.entry_price - price) * trade.quantity

\* mutant: the commission is stored but not charged to the realized P&L
ExitRow_GrossPnl(trade, exit_time, exit_price, exit_reason, commission, mae, mfe, notes) ==
    LET realized_pnl == Pnl(trade, exit_price)
        position_value == trade.entry_price * trade.quantity
    IN  [trade EXCEPT
           !.exit_time = Some(exit_time),
           !.exit_price = Some(exit_price),
           !.exit_reason = Some(exit_reason),
           !.commission = Some(commission),
           !.actual_stop = Null,
           !.actual_target = Null,
           !.realized_pnl = Some(realized_pnl),
           !.pnl_pct = Some(RMul(Rat(realized_pnl, position_value), RInt(100))),
           !.risk_reward_ratio =
                IF trade.risk_amount > 0
                THEN Some(Rat(realized_pnl, trade.risk_amount))
                ELSE Some(RInt(0)),
           !.hold_time_minutes = Some(TruncDiv(exit_time - trade.entry_time, 60)),
           !.mae = IF mae # Null THEN mae ELSE trade.mae,
           !.mfe = IF mfe # Null THEN mfe ELSE trade.mfe,
           !.notes = notes]

\* the UPDATE of record_trade_exit, computed from the row read by get_trade
ExitRow(trade, exit_time, exit_price, exit_reason, commission, mae, mfe, notes) ==
    LET realized_pnl == Pnl(trade, exit_price) - commission
        position_value == trade.entry_price * trade.quantity
    IN  [trade EXCEPT
           !.exit_time = Some(exit_time),
           !.exit_price = Some(exit_price),
           !.exit_reason = Some(exit_reason),
           !.commission = Some(commission),
           !.actual_stop = Null,
           !.actual_target = Null,
           !.realized_pnl = Some(realized_pnl),
           !.pnl_pct = Some(RMul(Rat(realized_pnl, position_value), RInt(100))),
           !.risk_reward_ratio =
                IF trade.risk_amount > 0
                THEN Some(Rat(realized_pnl, trade.risk_amount))
                ELSE Some(RInt(0)),
           !.hold_time_minutes = Some(TruncDiv(exit_time - trade.entry_time, 60)),
           !.mae = IF mae # Null THEN mae ELSE trade.mae,
           !.mfe = IF mfe # Null THEN mfe ELSE trade.mfe,
           !.notes = notes]

\* `trade.get('mae', 0.0) or 0.0`
OrZero(x) == IF x = Null THEN 0 ELSE Val(x)

\* mutant: the columns follow the current unrealized P&L instead of its extremes
MaeMfe_TracksCurrent(trade, current_price) ==
    LET unrealized_pnl == Pnl(trade, current_price)
    IN  [updated |-> TRUE,
         mae |-> IF unrealized_pnl < 0 THEN unrealized_pnl ELSE 0,
         mfe |-> IF unrealized_pnl > 0 THEN unrealized_pnl ELSE 0]

\* update_trade_mae_mfe after get_trade returned the open row `trade`:
\* whether an UPDATE is issued, and the mae / mfe it writes
MaeMfe(trade, current_price) ==
    LET unrealized_pnl == Pnl(trade, current_price)
        current_mae == OrZero(trade.mae)
        current_mfe == OrZero(trade.mfe)
    IN  [updated |-> unrealized_pnl < current_mae \/ unrealized_pnl > current_mfe,
         mae |-> IF unrealized_pnl < current_mae THEN unrealized_pnl ELSE current_mae,
         mfe |-> IF unrealized_pnl > current_mfe THEN unrealized_pnl ELSE current_mfe]

\* UPDATE trades SET mae = ?, mfe = ? WHERE id = ?
WriteMaeMfe(rows, id, m) ==
    IF m.updated
    THEN [rows EXCEPT ![id].mae = Some(m.mae), ![id].mfe = Some(m.mfe)]
    ELSE rows

\* the orders in which the rows `ids` can come out of a sort on exit_time
\* (rows with equal exit_time in either order)
ExitTimeOrders(rows, ids) ==
    { o \in [1..Cardinality(ids) -> ids] :
        /\ \A i, j \in DOMAIN o : o[i] = o[j] => i = j
        /\ \A i, j \in DOMAIN o :
             i < j => Val(rows[o[i]].exit_time) <= Val(rows[o[j]].exit_time) }

\* the orders of SELECT ... ORDER BY exit_time DESC
ExitTimeOrdersDesc(rows, ids) ==
    { o \in [1..Cardinality(ids) -> ids] :
        /\ \A i, j \in DOMAIN o : o[i] = o[j] => i = j
        /\ \A i, j \in DOMAIN o :
             i < j => Val(rows[o[i]].exit_time) >= Val(rows[o[j]].exit_time) }

\* df['realized_pnl'].cumsum() up to row i
RECURSIVE CumSum(_, _, _)
CumSum(rows, order, i) ==
    IF i = 0 THEN 0
    ELSE CumSum(rows, order, i - 1) + Val(rows[order[i]].realized_pnl)

\* the DataFrame built over the rows in the given order
CurveOf(rows, order, starting_equity) ==
    [i \in 1..Len(order) |->
       [exit_time |-> Val(rows[order[i]].exit_time),
        realized_pnl |-> Val(rows[order[i]].realized_pnl),
        cumulative_pnl |-> CumSum(rows, order, i),
        equity |-> starting_equity + CumSum(rows, order, i)]]

\* get_equity_curve without df.sort_values('exit_time')
get_equity_curve_Unsorted(rows, starting_equity) ==
    { CurveOf(rows, o, starting_equity) :
        o \in ExitTimeOrdersDesc(rows, get_closed_trades(rows)) }

\* get_equity_curve(): the DataFrames it can return (one per order of the rows
\* that share an exit_time); the empty sequence is the empty DataFrame
get_equity_curve(rows, starting_equity) ==
    { CurveOf(rows, o, starting_equity) :
        o \in ExitTimeOrders(rows, get_closed_trades(rows)) }

IdleThread == [pc |-> "idle", id |-> 0, price |-> 0, trade |-> << >>]
AllIdle == \A t \in Threads : jthreads[t].pc = "idle"

\* self._conn.commit(): the file holds the rows of the connection
Commit(file, rows) == rows

\* _create_schema with a table that is dropped and created again
create_schema_Recreates(file) == << >>

\* _create_schema on the file at db_path: CREATE TABLE / INDEX IF NOT EXISTS
create_schema(file) == file

\* record_trade_entry: INSERT, commit, return cursor.lastrowid
EntryEffect(symbol, side, entry_time, entry_price, quantity, stop, target, risk) ==
    /\ trades' = Append(trades, EntryRow(symbol, side, entry_time, entry_price,
                                         quantity, stop, target, risk))
    /\ submitted' = Append(submitted, {})
    /\ db_file' = Commit(db_file, trades')
    /\ journal_op' = [op |-> "entry", id |-> Len(trades) + 1]
    /\ UNCHANGED << jthreads, trailVars, aggVars, orderVars, ibVars >>

record_trade_entry(symbol, side, entry_time, entry_price, quantity, stop, target, risk) ==
    /\ Len(trades) < MaxTrades
    /\ EntryEffect(symbol, side, entry_time, entry_price, quantity, stop, target, risk)

\* mutant: an exit for an unknown id inserts a row of its own
ExitUpdate_Upsert(rows, id, exit_time, exit_price, exit_reason, commission, mae, mfe, notes) ==
    LET t == get_trade(rows, id)
    IN  IF ~t.found
        THEN Append(rows, ExitRow(EntryRow("AAPL", "BUY", 0, 100, 10, 98, 104, 0),
                                  exit_time, exit_price, exit_reason, commission,
                                  mae, mfe, notes))
        ELSE [rows EXCEPT ![id] = ExitRow(t.row, exit_time, exit_price, exit_reason,
                                          commission, mae, mfe, notes)]

\* the table after record_trade_exit: untouched when get_trade finds no row
\* ("Trade ID not found" is logged), else the row UPDATEd
ExitUpdate(rows, id, exit_time, exit_price, exit_reason, commission, mae, mfe, notes) ==
    LET t == get_trade(rows, id)
    IN  IF ~t.found
        THEN rows
        ELSE [rows EXCEPT ![id] = ExitRow(t.row, exit_time, exit_price, exit_reason,
                                          commission, mae, mfe, notes)]

record_trade_exit(id, exit_time, exit_price, exit_reason, commission, mae, mfe, notes) ==
    /\ trades' = ExitUpdate(trades, id, exit_time, exit_price, exit_reason,
                            commission, mae, mfe, notes)
    /\ db_file' = IF get_trade(trades, id).found THEN Commit(db_file, trades')
                  ELSE db_file
    /\ journal_op' = [op |-> "exit", id |-> id]
    /\ UNCHANGED << jthreads, submitted, trailVars, aggVars, orderVars, ibVars >>

\* update_trade_mae_mfe run by one caller, start to end
update_trade_mae_mfe(id, current_price) ==
    LET t == get_trade(trades, id)
    IN  /\ IF ~t.found \/ t.row.exit_time # Null
           THEN UNCHANGED << trades, submitted >>
           ELSE /\ trades' = WriteMaeMfe(trades, id, MaeMfe(t.row, current_price))
                /\ submitted' = [submitted EXCEPT ![id] = @ \cup {current_price}]
        /\ db_file' = IF t.found /\ t.row.exit_time = Null
                          /\ MaeMfe(t.row, current_price).updated
                       THEN Commit(db_file, trades') ELSE db_file
        /\ journal_op' = [op |-> "mae_mfe", id |-> id]
        /\ UNCHANGED << jthreads, trailVars, aggVars, orderVars, ibVars >>

add_trade_note(id, note) ==
    LET t == get_trade(trades, id)
    IN  /\ IF ~t.found
           THEN UNCHANGED trades
           ELSE trades' = [trades EXCEPT ![id].notes = Append(@, note)]
        /\ db_file' = IF t.found THEN Commit(db_file, trades') ELSE db_file
        /\ journal_op' = [op |-> "note", id |-> id]
        /\ UNCHANGED << jthreads, submitted, trailVars, aggVars, orderVars, ibVars >>

\* update_trade_mae_mfe run by thread th: first the SELECT of get_trade ...
mae_mfe_read(th, id, current_price) ==
    LET t == get_trade(trades, id)
    IN  /\ jthreads[th].pc = "idle"
        /\ t.found
        /\ t.row.exit_time = Null
        /\ current_price \notin submitted[id]
        /\ jthreads' = [jthreads EXCEPT ![th] =
                          [pc |-> "read", id |-> id, price |-> current_price,
                           trade |-> t.row]]
        /\ submitted' = [submitted EXCEPT ![id] = @ \cup {current_price}]
        /\ journal_op' = [op |-> "mae_mfe_read", id |-> id]
        /\ UNCHANGED << trades, db_file, trailVars, aggVars, orderVars, ibVars >>

\* ... then the UPDATE and commit, computed from the row that was read
mae_mfe_write(th) ==
    /\ jthreads[th].pc = "read"
    /\ trades' = WriteMaeMfe(trades, jthreads[th].id,
                             MaeMfe(jthreads[th].trade, jthreads[th].price))
    /\ jthreads' = [jthreads EXCEPT ![th] = IdleThread]
    /\ db_file' = IF MaeMfe(jthreads[th].trade, jthreads[th].price).updated
                   THEN Commit(db_file, trades') ELSE db_file
    /\ journal_op' = [op |-> "mae_mfe_write", id |-> jthreads[th].id]
    /\ UNCHANGED << submitted, trailVars, aggVars, orderVars, ibVars >>

\* close(), then a new TradeDatabase on the same db_path: the connection is gone
\* and the next one reads what the file holds
close_and_reopen ==
    /\ trades # << >>
    /\ journal_op.op # "reopen"
    /\ trades' = create_schema(db_file)
    /\ jthreads' = [t \in Threads |-> IdleThread]
    /\ journal_op' = [op |-> "reopen", id |-> 0]
    /\ UNCHANGED << db_file, submitted, trailVars, aggVars, orderVars, ibVars >>

(***************************************************************************)
(* OrderManager (src/src/execution/order_manager.py).  Money amounts are    *)
(* exact rationals; the broker session (ib_manager) is the environment.     *)
(***************************************************************************)
OrderSymbols == {"AAPL", "MSFT", "TSLA"}
AccountValues == {10000}
SetupEntries == {100}
SetupStops == {0, 95, 100}        \* 0: the setup carries no stop
SetupTargets == {110}
RegimeFactors == {[n |-> 1, d |-> 2], [n |-> 1, d |-> 1]}
Ports == {4002, 7496}
PaperPorts == {7497, 4002}
DryRuns == BOOLEAN
AccountQueries == {"ok", "raise"}
PlaceOutcomes == {"ok", "raise_place", "raise_sleep"}

\* exec_config values read by OrderManager.__init__
max_risk_per_trade == [n |-> 1, d |-> 100]
max_total_risk == [n |-> 2, d |-> 100]
max_positions == 2

MaxCalls == 6

\* TradeOrder dataclass; present = FALSE stands for None / an absent key
NoOrder ==
    [present |-> FALSE, symbol |-> "", action |-> "BUY", quantity |-> 0,
     entry_price |-> 0, stop_loss |-> 0, take_profit |-> 0,
     risk_amount |-> RInt(0), position_size_pct |-> RInt(0),
     order_id |-> Null, status |-> "pending"]

TradeOrder(symbol, quantity, entry_price, stop_loss, take_profit, risk_amount, position_size_pct) ==
    [present |-> TRUE, symbol |-> symbol, action |-> "BUY", quantity |-> quantity,
     entry_price |-> entry_price, stop_loss |-> stop_loss, take_profit |-> take_profit,
     risk_amount |-> risk_amount, position_size_pct |-> position_size_pct,
     order_id |-> Null, status |-> "pending"]

\* validate_execution_allowed; query is the outcome of the account / profile lookups
validate_execution_allowed(query) ==
    IF ~allow_execution THEN FALSE
    ELSE IF ~ib_session.connected THEN FALSE
    ELSE IF require_paper_trading
         THEN IF query = "raise" THEN FALSE
              ELSE ib_session.port \in PaperPorts
         ELSE TRUE

\* calculate_position_size
calculate_position_size(account_value, entry_price, stop_loss, regime_adjustment) ==
    LET risk_per_share == Abs(entry_price - stop_loss)
        adjusted_risk_pct == RMul(max_risk_per_trade, regime_adjustment)
        risk_amount == RMul(RInt(account_value), adjusted_risk_pct)
        quantity == risk_amount.n \div (risk_amount.d * risk_per_share)
    IN  IF risk_per_share <= 0
        THEN [quantity |-> 0, risk_amount |-> RInt(0), position_pct |-> RInt(0)]
        ELSE [quantity |-> quantity, risk_amount |-> risk_amount,
              position_pct |-> Rat(quantity * entry_price, account_value)]

ActiveSymbols(active) == {s \in OrderSymbols : active[s].present}

RECURSIVE SumRisk(_, _)
SumRisk(active, syms) ==
    IF syms = {} THEN RInt(0)
    ELSE LET s == CHOOSE x \in syms : TRUE
         IN  RAdd(active[s].risk_amount, SumRisk(active, syms \ {s}))

\* get_total_risk
get_total_risk(active) == SumRisk(active, ActiveSymbols(active))

\* validate_risk_limits
validate_risk_limits(new_risk_amount, account_value, active) ==
    LET new_trade_risk_pct == RDiv(new_risk_amount, RInt(account_value))
        new_total_risk == RAdd(get_total_risk(active), new_risk_amount)
        new_total_risk_pct == RDiv(new_total_risk, RInt(account_value))
    IN  IF RLt(max_risk_per_trade, new_trade_risk_pct) THEN FALSE
        ELSE IF RLt(max_total_risk, new_total_risk_pct) THEN FALSE
        ELSE IF Cardinality(ActiveSymbols(active)) >= max_positions THEN FALSE
        ELSE TRUE

\* the order create_order_from_setup returns (NoOrder: None)
OrderFromSetup(symbol, entry_price, stop_loss, take_profit, regime_adjustment, account_value, active) ==
    LET sizing == calculate_position_size(account_value, entry_price, stop_loss,
                                          regime_adjustment)
    IN  IF entry_price = 0 \/ stop_loss = 0 \/ take_profit = 0 THEN NoOrder
        ELSE IF sizing.quantity = 0 THEN NoOrder
        ELSE IF ~validate_risk_limits(sizing.risk_amount, account_value, active)
             THEN NoOrder
        ELSE TradeOrder(symbol, sizing.quantity, entry_price, stop_loss, take_profit,
                        sizing.risk_amount, sizing.position_pct)

create_order_from_setup(s, entry_price, stop_loss, take_profit, regime_adjustment, account_value) ==
    LET order == OrderFromSetup(s, entry_price, stop_loss, take_profit,
                                regime_adjustment, account_value, active_positions)
    IN  /\ n_calls < MaxCalls
        /\ n_calls' = n_calls + 1
        /\ held_orders' = IF order.present THEN [held_orders EXCEPT ![s] = order]
                          ELSE held_orders
        /\ om_op' = [op |-> "create", symbol |-> s, order |-> order,
                     account_value |-> account_value]
        /\ UNCHANGED << allow_execution, require_paper_trading, ib_session,
                        active_positions, order_history, placed_orders,
                        trailVars, aggVars, journalVars, ibVars >>

\* submit_order without its duplicate check
SubmitOutcome_NoDuplicateCheck(order, dry_run, allowed, place, active) ==
    IF ~allowed /\ ~dry_run
    THEN [success |-> FALSE, message |-> "Execution not allowed",
          placed |-> FALSE, tracked |-> FALSE, status |-> order.status]
    ELSE IF dry_run
    THEN [success |-> TRUE, message |-> "Dry run - order validated",
          placed |-> FALSE, tracked |-> FALSE, status |-> order.status]
    ELSE IF place = "raise_place"
    THEN [success |-> FALSE, message |-> "exception",
          placed |-> FALSE, tracked |-> FALSE, status |-> "rejected"]
    ELSE IF place = "raise_sleep"
    THEN [success |-> FALSE, message |-> "exception",
          placed |-> TRUE, tracked |-> FALSE, status |-> "rejected"]
    ELSE [success |-> TRUE, message |-> "Order submitted successfully",
          placed |-> TRUE, tracked |-> TRUE, status |-> "submitted"]

\* submit_order without the validate_execution_allowed gate
SubmitOutcome_NoKillSwitch(order, dry_run, allowed, place, active) ==
    IF active[order.symbol].present
    THEN [success |-> FALSE, message |-> "Position already exists",
          placed |-> FALSE, tracked |-> FALSE, status |-> order.status]
    ELSE IF dry_run
    THEN [success |-> TRUE, message |-> "Dry run - order validated",
          placed |-> FALSE, tracked |-> FALSE, status |-> order.status]
    ELSE IF place = "raise_place"
    THEN [success |-> FALSE, message |-> "exception",
          placed |-> FALSE, tracked |-> FALSE, status |-> "rejected"]
    ELSE IF place = "raise_sleep"
    THEN [success |-> FALSE, message |-> "exception",
          placed |-> TRUE, tracked |-> FALSE, status |-> "rejected"]
    ELSE [success |-> TRUE, message |-> "Order submitted successfully",
          placed |-> TRUE, tracked |-> TRUE, status |-> "submitted"]

\* the path submit_order takes: what it returns, whether ib.placeOrder returned
\* (placed), whether the order was tracked, and the status left on the order;
\* place is the outcome of the broker calls (placeOrder, then sleep)
SubmitOutcome(order, dry_run, allowed, place, active) ==
    IF ~allowed /\ ~dry_run
    THEN [success |-> FALSE, message |-> "Execution not allowed",
          placed |-> FALSE, tracked |-> FALSE, status |-> order.status]
    ELSE IF active[order.symbol].present
    THEN [success |-> FALSE, message |-> "Position already exists",
          placed |-> FALSE, tracked |-> FALSE, status |-> order.status]
    ELSE IF dry_run
    THEN [success |-> TRUE, message |-> "Dry run - order validated",
          placed |-> FALSE, tracked |-> FALSE, status |-> order.status]
    ELSE IF place = "raise_place"
    THEN [success |-> FALSE, message |-> "exception",
          placed |-> FALSE, tracked |-> FALSE, status |-> "rejected"]
    ELSE IF place = "raise_sleep"
    THEN [success |-> FALSE, message |-> "exception",
          placed |-> TRUE, tracked |-> FALSE, status |-> "rejected"]
    ELSE [success |-> TRUE, message |-> "Order submitted successfully",
          placed |-> TRUE, tracked |-> TRUE, status |-> "submitted"]

\* submit_order(held_orders[s], dry_run)
submit_order(s, dry_run, query, place) ==
    LET order == held_orders[s]
        allowed == validate_execution_allowed(query)
        out == SubmitOutcome(order, dry_run, allowed, place, active_positions)
        sent == [order EXCEPT !.status = out.status,
                              !.order_id = IF out.tracked
                                           THEN Some(Len(placed_orders) + 1) ELSE @]
    IN  /\ order.present
        /\ n_calls < MaxCalls
        /\ n_calls' = n_calls + 1
        /\ placed_orders' = IF out.placed
                            THEN Append(placed_orders,
                                        [symbol |-> order.symbol, action |-> order.action,
                                         quantity |-> order.quantity])
                            ELSE placed_orders
        /\ active_positions' = IF out.tracked
                               THEN [active_positions EXCEPT ![s] = sent]
                               ELSE active_positions
        /\ order_history' = IF out.tracked THEN Append(order_history, sent)
                            ELSE order_history
        /\ held_orders' = [held_orders EXCEPT ![s] = sent]
        /\ om_op' = [op |-> "submit", symbol |-> s, dry_run |-> dry_run,
                     allowed |-> allowed, success |-> out.success,
                     message |-> out.message]
        /\ UNCHANGED << allow_execution, require_paper_trading, ib_session,
                        trailVars, aggVars, journalVars, ibVars >>

\* the execution section of the configuration, as loaded by __init__
set_execution_config(allow, paper) ==
    /\ << allow, paper >> # << allow_execution, require_paper_trading >>
    /\ allow_execution' = allow
    /\ require_paper_trading' = paper
    /\ UNCHANGED << ib_session, active_positions, order_history, held_orders,
                    placed_orders, om_op, n_calls, trailVars, aggVars, journalVars, ibVars >>

\* the broker session connects, drops, or is opened on another port
ib_connection(connected, port) ==
    /\ [connected |-> connected, port |-> port] # ib_session
    /\ ib_session' = [connected |-> connected, port |-> port]
    /\ UNCHANGED << allow_execution, require_paper_trading, active_positions,
                    order_history, held_orders, placed_orders, om_op, n_calls,
                    trailVars, aggVars, journalVars, ibVars >>

(***************************************************************************)
(* IBDataManager (src/src/data/ib_manager.py).  self.ib is "none" (None),   *)
(* "up" (an IB object whose isConnected() is True) or "down" (an IB object  *)
(* that is not connected).  The caller is thread "main"; "hb" is the        *)
(* IBHeartbeat thread; the IBReconnect threads come from the pool RThreads. *)
(* A thread whose pc is "none" does not exist.  connect() and disconnect()  *)
(* hold the RLock; the heartbeat loop, _on_disconnected, _trigger_reconnect *)
(* and the cleanup at the head of _reconnect_loop run without it.           *)
(* Operators on the manager take and return w = [m, th, ok]: the object's   *)
(* fields, the threads, and ok = FALSE when a thread would have to be       *)
(* started beyond the pool.                                                 *)
(***************************************************************************)
ConnectionState == {"disconnected", "connecting", "connected", "reconnecting", "error"}

RThreads == {"r1", "r2"}

IbThreads == {"main", "hb"} \cup RThreads

\* attempts made by one connect() call (max_reconnect_attempts = 0 retries for ever)
MaxTries == 5

\* values of max_reconnect_attempts
AttemptLimits == {0, 1, 2}

\* what IB().connect() does: returns connected, ConnectionRefusedError, TimeoutError
GatewayOutcomes == {"ok", "refused", "timeout"}

FailingOutcomes == GatewayOutcomes \ {"ok"}

IdleIbThread(th) == [pc |-> IF th = "main" THEN "idle" ELSE "none", attempt |-> 0, retry |-> TRUE]

NewManager(reconnect_enabled, max_attempts, heartbeat_enabled) == [state |-> "disconnected", ib |-> "none", heartbeat_thread |-> FALSE, heartbeat_stop_event |-> FALSE, active_subscriptions |-> {}, reconnect_enabled |-> reconnect_enabled, max_reconnect_attempts |-> max_attempts, heartbeat_enabled |-> heartbeat_enabled]

IbOp(op, result, attempts, retry) == [op |-> op, result |-> result, attempts |-> attempts, retry |-> retry]

is_connected(m) == IF m.ib = "none" THEN FALSE ELSE m.ib = "up" /\ m.state = "connected"

trigger_reconnect(w) ==
    IF w.m.state = "reconnecting" THEN w
    ELSE IF \A r \in RThreads : w.th[r].pc # "none" THEN [w EXCEPT !.ok = FALSE]
    ELSE LET r == CHOOSE x \in RThreads : w.th[x].pc = "none"
         IN  [w EXCEPT !.m.state = "reconnecting", !.th[r].pc = "start"]

on_disconnected(w) ==
    LET w1 == [w EXCEPT !.m.state = "disconnected"]
    IN  IF w1.m.reconnect_enabled THEN trigger_reconnect(w1) ELSE w1

\* a second thread started while an earlier one that outlived its join is
\* still alive runs the same loop: the two are kept as one
start_heartbeat(w) ==
    IF w.m.heartbeat_thread THEN w
    ELSE [w EXCEPT !.m.heartbeat_stop_event = FALSE,
                   !.m.heartbeat_thread = TRUE,
                   !.th["hb"].pc = IF @ = "none" THEN "wait" ELSE @]

\* joined = FALSE: join(timeout=5.0) returned with the thread still alive
stop_heartbeat(w, joined) ==
    IF ~w.m.heartbeat_thread THEN w
    ELSE [w EXCEPT !.m.heartbeat_stop_event = TRUE,
                   !.m.heartbeat_thread = FALSE,
                   !.th["hb"].pc = IF joined THEN "none" ELSE @]

cancel_all_subscriptions(w) == [w EXCEPT !.m.active_subscriptions = {}]

\* self.ib.disconnect() of the library; fires: it emits disconnectedEvent,
\* on which connect() registered _on_disconnected
ib_disconnect(w, fires) ==
    IF w.m.ib # "up" THEN w
    ELSE LET w1 == [w EXCEPT !.m.ib = "down"]
         IN  IF fires THEN on_disconnected(w1) ELSE w1

RetriesExhausted_OneEarly(max_attempts, attempt) == max_attempts > 0 /\ attempt >= max_attempts - 1

RetriesExhausted(max_attempts, attempt) == max_attempts > 0 /\ attempt >= max_attempts

\* connect() returns (or raises) in thread th; in a reconnect thread the rest
\* of _reconnect_loop follows and the thread ends
finish_connect(w, th, result) ==
    IF th = "main" THEN [w EXCEPT !.th[th] = IdleIbThread(th)]
    ELSE [w EXCEPT !.m.state = IF result = "true" THEN @ ELSE "error",
                   !.th[th] = IdleIbThread(th)]

IbStep(w, lock, op) ==
    /\ w.ok
    /\ ibm' = w.m
    /\ ib_threads' = w.th
    /\ ib_lock' = lock
    /\ ib_op' = op
    /\ UNCHANGED << trailVars, aggVars, journalVars, orderVars >>

\* IBDataManager(reconnect_enabled=, max_reconnect_attempts=, heartbeat_enabled=)
new_manager(reconnect_enabled, max_attempts, heartbeat_enabled) ==
    /\ ib_op.op = "init"
    /\ IbStep([m |-> NewManager(reconnect_enabled, max_attempts, heartbeat_enabled),
               th |-> ib_threads, ok |-> TRUE],
              ib_lock, IbOp("new", "none", 0, FALSE))

\* connect(retry) up to the head of its loop: thread th takes the lock
connect_call(th, retry) ==
    /\ ib_lock = "none"
    /\ IF th = "main" THEN ib_threads[th].pc = "idle"
                      ELSE ib_threads[th].pc = "cleaned" /\ retry
    /\ LET w == [m |-> ibm, th |-> ib_threads, ok |-> TRUE]
       IN  IF is_connected(ibm)
           THEN IbStep(finish_connect(w, th, "true"), "none",
                       IF th = "main" THEN IbOp("connect", "true", 0, retry) ELSE ib_op)
           ELSE IbStep([w EXCEPT !.m.state = "connecting",
                                 !.th[th] = [pc |-> "connect_loop", attempt |-> 0,
                                             retry |-> retry]],
                       th,
                       IF th = "main" THEN IbOp("connecting", "none", 0, retry) ELSE ib_op)

\* one iteration of the loop of connect(); the last one returns or raises
connect_attempt(th, outcome) ==
    /\ ib_threads[th].pc = "connect_loop"
    /\ ib_lock = th
    /\ ib_threads[th].attempt < MaxTries
    /\ LET t == ib_threads[th]
           max_attempts == IF t.retry THEN ibm.max_reconnect_attempts ELSE 1
           attempt == t.attempt + 1
           w0 == [m |-> ibm, th |-> [ib_threads EXCEPT ![th].attempt = attempt], ok |-> TRUE]
           failed == [w0 EXCEPT !.m.ib = "down", !.m.state = "error"]
           connected == [w0 EXCEPT !.m.ib = "up", !.m.state = "connected"]
       IN  /\ max_attempts = 0 \/ t.attempt < max_attempts
           /\ IF outcome = "ok"
              THEN IbStep(finish_connect(IF ibm.heartbeat_enabled
                                         THEN start_heartbeat(connected) ELSE connected,
                                         th, "true"),
                          "none",
                          IF th = "main" THEN IbOp("connect", "true", attempt, t.retry)
                                         ELSE ib_op)
              ELSE IF ~t.retry
              THEN IbStep(finish_connect(failed, th, "raised"), "none",
                          IF th = "main" THEN IbOp("connect", "raised", attempt, t.retry)
                                         ELSE ib_op)
              ELSE IF RetriesExhausted(max_attempts, attempt)
                      \/ ~(max_attempts = 0 \/ attempt < max_attempts)
              THEN IbStep(finish_connect(failed, th, "false"), "none",
                          IF th = "main" THEN IbOp("connect", "false", attempt, t.retry)
                                         ELSE ib_op)
              ELSE IbStep(failed, th, ib_op)

\* disconnect(), by the caller
disconnect(joined, fires) ==
    /\ ib_threads["main"].pc = "idle"
    /\ ib_lock = "none"
    /\ ib_threads["hb"].pc # "request" => joined
    /\ LET w0 == [m |-> ibm, th |-> ib_threads, ok |-> TRUE]
           w1 == stop_heartbeat(w0, joined)
           w2 == IF w1.m.ib = "up" THEN cancel_all_subscriptions(w1) ELSE w1
           w3 == IF w2.m.ib # "none"
                 THEN [ib_disconnect(w2, fires) EXCEPT !.m.ib = "none"]
                 ELSE w2
           w4 == [w3 EXCEPT !.m.state = "disconnected", !.m.active_subscriptions = {}]
       IN  IbStep(w4, "none", IbOp("disconnect", "none", 0, FALSE))

\* _heartbeat_loop: the loop condition and the body up to reqCurrentTime
heartbeat_wake ==
    /\ ib_threads["hb"].pc = "wait"
    /\ LET w0 == [m |-> ibm, th |-> ib_threads, ok |-> TRUE]
       IN  IF ibm.heartbeat_stop_event
           THEN IbStep([w0 EXCEPT !.th["hb"].pc = "none"], ib_lock, ib_op)
           ELSE IF ibm.ib = "up"
           THEN IbStep([w0 EXCEPT !.th["hb"].pc = "request"], ib_lock, ib_op)
           ELSE IF ibm.reconnect_enabled /\ ibm.state # "reconnecting"
           THEN IbStep(trigger_reconnect(w0), ib_lock, ib_op)
           ELSE IbStep(w0, ib_lock, ib_op)

\* _heartbeat_loop: reqCurrentTime returns or raises, then the wait
heartbeat_reply(result) ==
    /\ ib_threads["hb"].pc = "request"
    /\ LET w0 == [m |-> ibm, th |-> [ib_threads EXCEPT !["hb"].pc = "wait"], ok |-> TRUE]
       IN  IF result = "error" /\ ibm.reconnect_enabled
           THEN IbStep(trigger_reconnect(w0), ib_lock, ib_op)
           ELSE IbStep(w0, ib_lock, ib_op)

\* the gateway drops the connection: the library emits disconnectedEvent
gateway_drop ==
    /\ ibm.ib = "up"
    /\ IbStep(ib_disconnect([m |-> ibm, th |-> ib_threads, ok |-> TRUE], TRUE),
              ib_lock, ib_op)

\* _reconnect_loop: the cleanup before its connect(retry=True)
reconnect_cleanup(r, fires) ==
    /\ ib_threads[r].pc = "start"
    /\ LET w0 == [m |-> ibm, th |-> [ib_threads EXCEPT ![r].pc = "cleaned"], ok |-> TRUE]
           w1 == IF w0.m.ib # "none"
                 THEN [ib_disconnect(w0, fires) EXCEPT !.m.ib = "none"]
                 ELSE w0
       IN  IbStep(w1, ib_lock, ib_op)

(***************************************************************************)
(* Initial state: the singletons right after construction.                  *)
(***************************************************************************)
Init ==
    /\ positions = [s \in Symbols |-> NoPosition]
    /\ trailing_configs = [s \in Symbols |-> NoConfig]
    /\ cfg_order = << >>
    /\ adjustment_history = << >>
    /\ last_adjustments = << >>
    /\ last_op = [op |-> "init"]
    /\ trail_steps = 0
    /\ incomplete_bars = [s \in AggSymbols |-> [tf \in TfSet |-> NoBar]]
    /\ complete_bars = [s \in AggSymbols |-> [tf \in TfSet |-> << >>]]
    /\ bar_counts = [s \in AggSymbols |-> [tf \in TfSet |-> 0]]
    /\ agg_sources = [s \in AggSymbols |-> << >>]
    /\ add_result = [symbol |-> "", bar |-> NoBar,
                     completed |-> [tf \in TfSet |-> NoBar],
                     num_bars |-> [tf \in TfSet |-> 0], error |-> "none",
                     raised |-> FALSE]
    /\ n_added = 0
    /\ agg_lock = "none"
    /\ athreads = [th \in AggThreads |-> IdleFeed]
    /\ trades = << >>
    /\ jthreads = [t \in Threads |-> IdleThread]
    /\ submitted = << >>
    /\ journal_op = [op |-> "init", id |-> 0]
    /\ db_file = << >>
    /\ allow_execution = FALSE
    /\ require_paper_trading = TRUE
    /\ ib_session = [connected |-> FALSE, port |-> 4002]
    /\ active_positions = [s \in OrderSymbols |-> NoOrder]
    /\ order_history = << >>
    /\ held_orders = [s \in OrderSymbols |-> NoOrder]
    /\ placed_orders = << >>
    /\ om_op = [op |-> "init"]
    /\ n_calls = 0
    /\ ibm = NewManager(TRUE, 5, TRUE)
    /\ ib_threads = [th \in IbThreads |-> IdleIbThread(th)]
    /\ ib_lock = "none"
    /\ ib_op = IbOp("init", "none", 0, FALSE)

InstallStops == {NoStop, SomeStop(RInt(90)), SomeStop(RInt(110))}

\* ---- the position book and the trailing controller
NextTrail ==
    \/ \E s \in Symbols, ttype \in TrailingTypes, amount \in TrailingAmounts,
         act \in ActivationPcts, mintrail \in MinTrails :
         enable_trailing_stop(s, ttype, amount, act, mintrail)
    \/ \E s \in Symbols : disable_trailing_stop(s)
    \/ \E atr \in [Symbols -> AtrValues] : check_and_update_stops(atr)
    \/ \E s \in Symbols, side \in Sides, entry \in EntryPrices,
         stop \in InstallStops, cur \in {0, 100} :
         install_position(s, side, entry, stop, cur)
    \/ \E s \in Symbols : remove_position(s)
    \/ \E s \in Symbols, price \in Prices : set_current_price(s, price)
    \/ \E s \in Symbols, stop \in StopInputs : modify_stop(s, RInt(stop))

SpecTrail == Init /\ [][NextTrail]_vars

\* ---- one position with trailing enabled, driven by price updates and checks only
NextTrailRun ==
    \/ \E s \in Symbols, side \in Sides, entry \in EntryPrices,
         stop \in InstallStops, cur \in {0, 100} :
         install_position(s, side, entry, stop, cur)
    \/ \E s \in Symbols, ttype \in TrailingTypes, amount \in TrailingAmounts,
         act \in ActivationPcts, mintrail \in MinTrails :
         /\ ~trailing_configs[s].present
         /\ enable_trailing_stop(s, ttype, amount, act, mintrail)
    \/ \E s \in Symbols, price \in Prices : set_current_price(s, price)
    \/ \E atr \in [Symbols -> AtrValues] : check_and_update_stops(atr)

SpecTrailRun == Init /\ [][NextTrailRun]_vars

\* ---- a Long position entered at 150.00 (prices in cents) with a 2 % trail that
\* activates at 1.5 % profit, evaluated after every tick
ScenarioTicks == {15150, 15300, 15100, 15500}
ScenarioStops == {NoStop, SomeStop(RInt(14800))}

NextTrailScenario ==
    \/ \E stop \in ScenarioStops : install_position("AAPL", "BUY", 15000, stop, 15000)
    \/ /\ ~trailing_configs["AAPL"].present
       /\ enable_trailing_stop("AAPL", "percentage", 2, [n |-> 3, d |-> 2],
                               [n |-> 1, d |-> 200])
    \/ \E price \in ScenarioTicks :
         /\ trailing_configs["AAPL"].present
         /\ evaluate_tick("AAPL", price, [s \in Symbols |-> 0])

SpecTrailScenario == Init /\ [][NextTrailScenario]_vars

\* ---- a position entered at 150.00 whose stop already sits within a few cents
\* of the trailing stop the next tick produces (149.94 for either side)
ThresholdStops == {SomeStop(RInt(14992)), SomeStop(RInt(14993)),
                   SomeStop(RInt(14995)), SomeStop(RInt(14996))}
ThresholdTicks == {14700, 15300}

NextTrailThreshold ==
    \/ \E side \in Sides, stop \in ThresholdStops :
         install_position("AAPL", side, 15000, stop, 15000)
    \/ /\ ~trailing_configs["AAPL"].present
       /\ enable_trailing_stop("AAPL", "percentage", 2, [n |-> 3, d |-> 2],
                               [n |-> 1, d |-> 200])
    \/ \E price \in ThresholdTicks :
         /\ trailing_configs["AAPL"].present
         /\ evaluate_tick("AAPL", price, [s \in Symbols |-> 0])

SpecTrailThreshold == Init /\ [][NextTrailThreshold]_vars

\* ---- the aggregator
NextAgg ==
    \/ \E s \in {"AAPL"}, ts \in TimeStamps, sh \in SourceShapes, cb \in Callbacks :
         add_bar(s, SourceBar(ts, sh), cb)
    \/ \E s \in {"AAPL"} : reset(s)
    \/ \E s \in {"AAPL"}, tf \in TfSet : clear_history(s, tf)

SpecAgg == Init /\ [][NextAgg]_vars

\* ---- the aggregator fed two symbols, with per-symbol resets
NextAggReset ==
    \/ \E s \in AggSymbols, ts \in TimeStamps, sh \in SourceShapes :
         add_bar(s, SourceBar(ts, sh), "none")
    \/ \E s \in AggSymbols : reset(s)

SpecAggReset == Init /\ [][NextAggReset]_vars

\* ---- the aggregator fed the 5-second bars of one session, with gaps
NextAggFeed ==
    \E k \in 0..(MaxFeed - 1), cb \in Callbacks : feed_bar("AAPL", k, cb)

SpecAggFeed == Init /\ [][NextAggFeed]_vars

\* ---- the aggregator fed by concurrent threads, each its own symbol in order
NextAggThreads ==
    \/ \E th \in AggThreads, ts \in TimeStamps, sh \in SourceShapes, cb \in Callbacks :
         add_bar_enter(th, SourceBar(ts, sh), cb)
    \/ \E th \in AggThreads : add_bar_aggregate(th)
    \/ \E th \in AggThreads : add_bar_callback_done(th)
    \/ \E th \in AggThreads : add_bar_return(th)

SpecAggThreads == Init /\ [][NextAggThreads]_vars

\* ---- the journal, one caller at a time
NextJournal ==
    \/ \E side \in JournalSides, et \in EntryTimes, ep \in JournalEntryPrices,
         q \in Quantities, risk \in RiskAmounts :
         record_trade_entry("AAPL", side, et, ep, q, 98, 104, risk)
    \/ \E id \in 1..(MaxTrades + 1), xt \in ExitTimes, xp \in ExitPrices,
         why \in ExitReasons, c \in Commissions, mae \in MaeMfeInputs,
         notes \in ExitNotes :
         record_trade_exit(id, xt, xp, why, c, mae, Null, notes)
    \/ \E id \in 1..(MaxTrades + 1), price \in TickPrices :
         update_trade_mae_mfe(id, price)
    \/ \E id \in 1..(MaxTrades + 1), note \in NoteTexts :
         /\ id \in 1..Len(trades) => Len(trades[id].notes) < MaxNotes
         /\ add_trade_note(id, note)

SpecJournal == Init /\ [][NextJournal]_vars

\* ---- the journal of positions followed tick by tick: entry, MAE/MFE updates, exit
NextJournalTicks ==
    \/ \E side \in JournalSides, et \in EntryTimes, ep \in JournalEntryPrices,
         q \in Quantities :
         record_trade_entry("AAPL", side, et, ep, q, 98, 104, 200)
    \/ \E id \in 1..(MaxTrades + 1), price \in TickPrices :
         update_trade_mae_mfe(id, price)
    \/ \E id \in 1..(MaxTrades + 1), xt \in ExitTimes, xp \in ExitPrices,
         why \in ExitReasons :
         record_trade_exit(id, xt, xp, why, 0, Null, Null, Null)

SpecJournalTicks == Init /\ [][NextJournalTicks]_vars

\* ---- the journal round trip: entries and exits of trades entered at :00 or :30
RoundTripEntryTimes == {0, 30}

NextJournalRoundTrip ==
    \/ \E side \in JournalSides, et \in RoundTripEntryTimes, ep \in JournalEntryPrices,
         q \in Quantities, risk \in RiskAmounts :
         record_trade_entry("AAPL", side, et, ep, q, 98, 104, risk)
    \/ \E id \in 1..(MaxTrades + 1), xt \in ExitTimes, xp \in ExitPrices,
         why \in ExitReasons, c \in Commissions :
         record_trade_exit(id, xt, xp, why, c, Null, Null, Null)

SpecJournalRoundTrip == Init /\ [][NextJournalRoundTrip]_vars

\* ---- the journal with concurrent MAE/MFE writers (thread-local connections)
NextJournalThreads ==
    \/ \E side \in JournalSides, et \in EntryTimes, ep \in JournalEntryPrices,
         q \in Quantities :
         record_trade_entry("AAPL", side, et, ep, q, 98, 104, 200)
    \/ \E th \in Threads, id \in 1..MaxTrades, price \in TickPrices :
         mae_mfe_read(th, id, price)
    \/ \E th \in Threads : mae_mfe_write(th)

SpecJournalThreads == Init /\ [][NextJournalThreads]_vars

\* ---- the MAE/MFE ticker threads running while the position is closed once
NextJournalExitRace ==
    \/ \E side \in JournalSides, et \in EntryTimes, ep \in JournalEntryPrices,
         q \in Quantities :
         record_trade_entry("AAPL", side, et, ep, q, 98, 104, 200)
    \/ \E th \in Threads, id \in 1..MaxTrades, price \in TickPrices :
         mae_mfe_read(th, id, price)
    \/ \E th \in Threads : mae_mfe_write(th)
    \/ \E id \in 1..MaxTrades, xt \in ExitTimes, xp \in ExitPrices, why \in ExitReasons :
         /\ id <= Len(trades)
         /\ trades[id].exit_time = Null
         /\ record_trade_exit(id, xt, xp, why, 0, Null, Null, Null)

SpecJournalExitRace == Init /\ [][NextJournalExitRace]_vars

\* ---- a journal of several Long trades that are entered and closed, for the
\* equity curve
NextJournalCurve ==
    \/ \E symbol \in Symbols, entry_time \in EntryTimes, price \in JournalEntryPrices,
         quantity \in Quantities :
         /\ Len(trades) < MaxCurveTrades
         /\ EntryEffect(symbol, "BUY", entry_time, price, quantity, 98, 104, 200)
    \/ \E id \in 1..MaxCurveTrades, exit_time \in ExitTimes, exit_price \in ExitPrices,
         reason \in ExitReasons, commission \in Commissions :
         /\ id <= Len(trades)
         /\ trades[id].exit_time = Null
         /\ record_trade_exit(id, exit_time, exit_price, reason, commission,
                              Null, Null, << >>)

SpecJournalCurve == Init /\ [][NextJournalCurve]_vars

\* ---- a journal that is closed and reopened on the same file between operations
NextJournalRestart ==
    \/ \E et \in EntryTimes, ep \in JournalEntryPrices, q \in Quantities :
         record_trade_entry("AAPL", "BUY", et, ep, q, 98, 104, 200)
    \/ \E id \in 1..MaxTrades, xp \in ExitPrices, why \in ExitReasons :
         /\ id <= Len(trades)
         /\ trades[id].exit_time = Null
         /\ record_trade_exit(id, 90, xp, why, 0, Null, Null, Null)
    \/ \E id \in 1..MaxTrades, price \in TickPrices :
         /\ id <= Len(trades)
         /\ update_trade_mae_mfe(id, price)
    \/ \E id \in 1..MaxTrades, note \in NoteTexts :
         /\ id <= Len(trades)
         /\ Len(trades[id].notes) < MaxNotes
         /\ add_trade_note(id, note)
    \/ close_and_reopen

SpecJournalRestart == Init /\ [][NextJournalRestart]_vars

\* ---- the order manager behind its kill switch, with two symbols
NextOrders ==
    \/ \E allow \in BOOLEAN, paper \in BOOLEAN : set_execution_config(allow, paper)
    \/ \E connected \in BOOLEAN, port \in Ports : ib_connection(connected, port)
    \/ \E s \in {"AAPL", "MSFT"}, entry \in SetupEntries, stop \in SetupStops,
         target \in SetupTargets, account \in AccountValues :
         create_order_from_setup(s, entry, stop, target, [n |-> 1, d |-> 1], account)
    \/ \E s \in {"AAPL", "MSFT"}, dry_run \in DryRuns, query \in AccountQueries,
         place \in PlaceOutcomes :
         submit_order(s, dry_run, query, place)

SpecOrders == Init /\ [][NextOrders]_vars

\* ---- live submission on a connected paper session: orders are created for
\* several setups and submitted in any order
NextOrdersRisk ==
    \/ \E paper \in BOOLEAN : set_execution_config(TRUE, paper)
    \/ ib_connection(TRUE, 4002)
    \/ \E s \in OrderSymbols, entry \in SetupEntries, target \in SetupTargets,
         adj \in RegimeFactors, account \in AccountValues :
         create_order_from_setup(s, entry, 95, target, adj, account)
    \/ \E s \in OrderSymbols : submit_order(s, FALSE, "ok", "ok")

SpecOrdersRisk == Init /\ [][NextOrdersRisk]_vars

\* ---- the aggregator feeding the position book
NextAggBook ==
    \/ \E side \in Sides :
         trail_steps = 0 /\ install_position("AAPL", side, 100, NoStop, 100)
    \/ remove_position("AAPL")
    \/ \E ts \in TimeStamps, sh \in SourceShapes, cb \in Callbacks :
         add_bar("AAPL", SourceBar(ts, sh), cb)

SpecAggBook == Init /\ [][NextAggBook]_vars

\* ---- the connection manager with its background threads
NextIb ==
    \/ \E re \in BOOLEAN, n \in AttemptLimits, hbe \in BOOLEAN : new_manager(re, n, hbe)
    \/ \E th \in {"main"} \cup RThreads, retry \in BOOLEAN : connect_call(th, retry)
    \/ \E th \in {"main"} \cup RThreads, outcome \in GatewayOutcomes :
         connect_attempt(th, outcome)
    \/ \E joined \in BOOLEAN, fires \in BOOLEAN : disconnect(joined, fires)
    \/ heartbeat_wake
    \/ \E result \in {"ok", "error"} : heartbeat_reply(result)
    \/ gateway_drop
    \/ \E r \in RThreads, fires \in BOOLEAN : reconnect_cleanup(r, fires)

SpecIb == Init /\ [][NextIb]_vars

\* ---- the caller alone against a gateway that refuses every attempt
NextIbDown ==
    \/ \E re \in BOOLEAN, n \in AttemptLimits, hbe \in BOOLEAN : new_manager(re, n, hbe)
    \/ \E retry \in BOOLEAN : connect_call("main", retry)
    \/ \E outcome \in FailingOutcomes : connect_attempt("main", outcome)
    \/ disconnect(TRUE, FALSE)

SpecIbDown == Init /\ [][NextIbDown]_vars

Next == NextAggBook \/ NextIb \/ NextIbDown \/ NextJournalExitRace \/ NextTrailThreshold \/ NextAggReset \/ NextOrders \/ NextOrdersRisk \/ NextJournalCurve \/ NextJournalRestart \/ NextTrail \/ NextTrailScenario \/ NextAgg \/ NextAggFeed \/ NextAggThreads \/ NextJournal \/ NextJournalTicks \/ NextJournalRoundTrip
          \/ NextJournalThreads

Spec == Init /\ [][Next]_vars

(***************************************************************************)
(* Claims about the trailing controller and the position book.              *)
(***************************************************************************)
AdjustmentsOf(s) == SelectSeq(adjustment_history, LAMBDA a : a.symbol = s)

\* C1: for one open position with trailing enabled, driven by price updates
\* and check_and_update_stops only, the new_stop values recorded for the
\* symbol are strictly increasing (Long) or strictly decreasing (Short).
C1_StopsStrictlyMonotonic ==
    \A s \in Symbols :
      LET h == AdjustmentsOf(s)
      IN  positions[s].open =>
            \A i, j \in 1..Len(h) :
              i < j =>
                IF positions[s].side = "BUY"
                THEN RLt(h[i].new_stop, h[j].new_stop)
                ELSE RLt(h[j].new_stop, h[i].new_stop)

\* C2: right after a check_and_update_stops call, every adjustment it recorded
\* has been applied: the position's stop_price equals the adjustment's new_stop.
C2_AdjustmentApplied ==
    last_op.op = "check" =>
      \A i \in 1..Len(last_adjustments) :
        positions[last_adjustments[i].symbol].stop_price
          = SomeStop(last_adjustments[i].new_stop)

\* C6: a check_and_update_stops call that directly follows another one, with
\* no price change (and the same ATR reading) in between, records no adjustment.
C6_SecondEvaluationRecordsNone ==
    [][ ( /\ last_op.op = "check"
          /\ last_op'.op = "check"
          /\ trail_steps' = trail_steps + 1
          /\ last_op'.atr = last_op.atr )
        => last_adjustments' = << >> ]_vars

C9_ModifyStopMonotonic ==
    [][ (last_op'.op = "modify_stop" /\ trail_steps' = trail_steps + 1) =>
          LET s == last_op'.symbol
              p == positions[s]
              ns == last_op'.new_stop
              better == \/ ~p.stop_price.has
                        \/ p.side = "BUY" /\ RLt(StopRat(p.stop_price), ns)
                        \/ p.side = "SELL" /\ RLt(ns, StopRat(p.stop_price))
          IN  /\ last_op'.result = better
              /\ better => positions'[s].stop_price = SomeStop(ns)
              /\ ~better => positions'[s].stop_price = p.stop_price ]_vars

\* a Short position whose stop was offered an equal or higher value and kept its stop
C9_Witness ==
    /\ last_op.op = "modify_stop"
    /\ ~last_op.result
    /\ positions[last_op.symbol].side = "SELL"
    /\ positions[last_op.symbol].stop_price.has

(***************************************************************************)
(* Claims about the aggregator.                                             *)
(***************************************************************************)
InOrder(bars) ==
    \A i \in 1..(Len(bars) - 1) : bars[i].timestamp < bars[i + 1].timestamp

\* the source bars of symbol s whose timestamp falls in the window of timeframe
\* tf that starts at boundary, in arrival order
SourcesOf(s, tf, boundary) ==
    SelectSeq(agg_sources[s], LAMBDA b : get_bar_boundary(b.timestamp, tf) = boundary)

RECURSIVE SeqHigh(_)
SeqHigh(bars) ==
    IF Len(bars) = 1 THEN bars[1].high ELSE Max2(bars[1].high, SeqHigh(Tail(bars)))

RECURSIVE SeqLow(_)
SeqLow(bars) ==
    IF Len(bars) = 1 THEN bars[1].low ELSE Min2(bars[1].low, SeqLow(Tail(bars)))

RECURSIVE SeqVolume(_)
SeqVolume(bars) ==
    IF bars = << >> THEN 0 ELSE bars[1].volume + SeqVolume(Tail(bars))

\* C3: when the source bars of a symbol arrived in timestamp order, every
\* completed bar of every target timeframe has open = open of the first source
\* bar of its window, close = close of the last, high = the maximum high,
\* low = the minimum low, volume = the sum of the volumes, and
\* low <= open, close <= high.
C3_CompletedBarAggregatesWindow ==
    \A s \in AggSymbols, tf \in TfSet :
      InOrder(agg_sources[s]) =>
        \A i \in 1..Len(complete_bars[s][tf]) :
          LET bar == complete_bars[s][tf][i]
              src == SourcesOf(s, tf, bar.timestamp)
          IN  /\ src # << >>
              /\ bar.complete
              /\ bar.open = src[1].open
              /\ bar.close = src[Len(src)].close
              /\ bar.high = SeqHigh(src)
              /\ bar.low = SeqLow(src)
              /\ bar.volume = SeqVolume(src)
              /\ bar.low <= bar.open /\ bar.open <= bar.high
              /\ bar.low <= bar.close /\ bar.close <= bar.high

\* a completed bar built from several in-order source bars whose closes differ
C3_Witness ==
    \E s \in AggSymbols, tf \in TfSet :
      /\ InOrder(agg_sources[s])
      /\ \E i \in 1..Len(complete_bars[s][tf]) :
           LET src == SourcesOf(s, tf, complete_bars[s][tf][i].timestamp)
           IN  Len(src) >= 2 /\ src[1].close # src[Len(src)].close

\* C4: add_bar with a source bar whose timestamp is not strictly later than the
\* last source bar accepted for the symbol reports an OrderingError and leaves
\* the in-progress and completed bars untouched.
C4_OutOfOrderBarRejected ==
    [][ ( /\ n_added' = n_added + 1
          /\ agg_sources[add_result'.symbol] # << >>
          /\ add_result'.bar.timestamp
               <= agg_sources[add_result'.symbol][Len(agg_sources[add_result'.symbol])].timestamp )
        => ( /\ add_result'.error = "OrderingError"
             /\ incomplete_bars' = incomplete_bars
             /\ complete_bars' = complete_bars ) ]_vars

(***************************************************************************)
(* Claims about the journal.                                                *)
(***************************************************************************)
ExitColumns(row) ==
    << row.exit_time, row.exit_price, row.exit_reason, row.commission,
       row.realized_pnl, row.pnl_pct, row.risk_reward_ratio, row.hold_time_minutes >>

\* C5: record_trade_exit on a trade whose exit_time is already set is rejected:
\* the exit fields and realized metrics of the row stay as they were.
C5_SecondExitRejected ==
    [][ \A id \in 1..Len(trades) :
          ( /\ journal_op'.op = "exit" /\ journal_op'.id = id
            /\ trades[id].exit_time # Null )
          => ( /\ Len(trades') = Len(trades)
               /\ ExitColumns(trades'[id]) = ExitColumns(trades[id]) ) ]_vars

SetMin(S) == CHOOSE x \in S : \A y \in S : x <= y
SetMax(S) == CHOOSE x \in S : \A y \in S : x >= y

\* the unrealized P&L values of the prices submitted so far for trade id
SubmittedPnls(id) == { Pnl(trades[id], p) : p \in submitted[id] }

\* C8: once every concurrent update_trade_mae_mfe call has returned, mae is the
\* minimum and mfe the maximum of 0 and the unrealized P&L of every submitted
\* price: no caller's update is lost.
C8_NoLostUpdate ==
    AllIdle =>
      \A id \in 1..Len(trades) :
        /\ trades[id].mae = Some(SetMin({0} \cup SubmittedPnls(id)))
        /\ trades[id].mfe = Some(SetMax({0} \cup SubmittedPnls(id)))

\* C10: an update_trade_mae_mfe call on an open trade never raises mae and
\* never lowers mfe.
C10_MaeMfeMonotonic ==
    [][ \A id \in 1..Len(trades) :
          ( /\ journal_op'.op = "mae_mfe" /\ journal_op'.id = id
            /\ trades[id].exit_time = Null )
          => ( /\ Len(trades') = Len(trades)
               /\ trades'[id].exit_time = Null
               /\ Val(trades'[id].mae) <= Val(trades[id].mae)
               /\ Val(trades'[id].mfe) >= Val(trades[id].mfe) ) ]_vars

\* an open trade that has seen both an adverse and a favourable price and whose
\* last update left both extremes in place
C10_Witness ==
    \E id \in 1..Len(trades) :
      /\ journal_op.op = "mae_mfe" /\ journal_op.id = id
      /\ trades[id].exit_time = Null
      /\ Val(trades[id].mae) < 0
      /\ Val(trades[id].mfe) > 0
      /\ submitted[id] = TickPrices

\* C11: once a symbol's config is activated, no stop calculation, whatever the
\* price it is given (profit back under the activation threshold, or a loss),
\* clears the flag: after a check_and_update_stops the config is either gone
\* (its position was closed) or still activated.
C11_ActivationSticky ==
    [][ \A s \in Symbols :
          ( /\ trailing_configs[s].present /\ trailing_configs[s].activated
            /\ last_op'.op = "check" /\ trail_steps' = trail_steps + 1 )
          => ( trailing_configs'[s].present => trailing_configs'[s].activated ) ]_vars

\* an activated Short config that was just evaluated at a losing price
C11_Witness ==
    \E s \in Symbols :
      /\ last_op.op = "check"
      /\ positions[s].open /\ positions[s].side = "SELL"
      /\ positions[s].current_price > positions[s].entry_price
      /\ trailing_configs[s].present /\ trailing_configs[s].activated

\* C12: for every trade that record_trade_exit closed, get_trade returns
\* realized_pnl = (exit - entry) x qty - commission for BUY and
\* (entry - exit) x qty - commission for SELL, pnl_pct = realized_pnl /
\* (entry x qty) x 100, risk_reward_ratio = realized_pnl / risk_amount when
\* risk_amount > 0 and 0 otherwise, and hold_time_minutes = the whole minutes
\* between entry_time and exit_time, rounded down.
C12_ExitMetrics ==
    \A id \in 1..Len(trades) :
      LET t == get_trade(trades, id)
          r == t.row
      IN  (t.found /\ r.exit_time # Null) =>
            LET gross == IF r.side = "BUY"
                         THEN (Val(r.exit_price) - r.entry_price) * r.quantity
                         ELSE (r.entry_price - Val(r.exit_price)) * r.quantity
                net == gross - Val(r.commission)
                secs == Val(r.exit_time) - r.entry_time
                mins == Val(r.hold_time_minutes)
            IN  /\ Val(r.realized_pnl) = net
                /\ Val(r.pnl_pct) = Rat(net * 100, r.entry_price * r.quantity)
                /\ Val(r.risk_reward_ratio) =
                     IF r.risk_amount > 0 THEN Rat(net, r.risk_amount) ELSE RInt(0)
                /\ mins * 60 <= secs /\ secs < (mins + 1) * 60

\* a Short trade entered at :30 with no risk amount, closed at a loss with a
\* commission after a whole number of minutes and a half
C12_Witness ==
    \E id \in 1..Len(trades) :
      /\ journal_op.op = "exit" /\ journal_op.id = id
      /\ trades[id].side = "SELL"
      /\ trades[id].risk_amount = 0
      /\ trades[id].entry_time = 30
      /\ trades[id].exit_time = Some(150)
      /\ trades[id].commission = Some(2)
      /\ trades[id].exit_price = Some(110)

\* C13: when the completion callback raises during add_bar, no exception
\* reaches the caller, and the in-progress bars, the completed bars and the
\* returned completions of every target timeframe are those of the same call
\* with a callback that does not raise.
C13_CallbackRaiseContained ==
    [][ (n_added' = n_added + 1 /\ add_result'.raised) =>
          LET s == add_result'.symbol
              ref == AddBarLoop([st |-> [inc |-> incomplete_bars[s],
                                         comp |-> complete_bars[s],
                                         cnt |-> bar_counts[s], pos |-> positions],
                                 out |-> [tf \in TfSet |-> NoBar],
                                 num_bars |-> [tf \in TfSet |-> 0],
                                 error |-> "none", raised |-> FALSE],
                                s, add_result'.bar, TargetTfs, "ok")
          IN  /\ add_result'.error = "none"
              /\ add_result'.completed = ref.out
              /\ incomplete_bars'[s] = ref.st.inc
              /\ complete_bars'[s] = ref.st.comp
              /\ bar_counts'[s] = ref.st.cnt ]_vars

\* an add_bar whose callback raised on the first completion and that still
\* completed and returned the bar of every target timeframe
C13_Witness ==
    /\ add_result.raised
    /\ \A tf \in TfSet : add_result.completed[tf].present
    /\ \A tf \in TfSet : incomplete_bars[add_result.symbol][tf].timestamp
                           = get_bar_boundary(add_result.bar.timestamp, tf)

(***************************************************************************)
(* Claims about the aggregator under concurrent feeds.                      *)
(***************************************************************************)
\* C14: while a completion callback runs (and with it the position price
\* update that the completion triggered), no thread holds the aggregator's
\* lock, so no other thread's add_bar or read has to wait for the callback.
C14_NoLockAcrossCallback ==
    \A th \in AggThreads : athreads[th].pc = "callback" => agg_lock = "none"

\* the bars of one symbol after its source bars were added one after the other
\* by a single caller, starting from an empty aggregator
RECURSIVE SequentialBars(_, _, _)
SequentialBars(st, s, bars) ==
    IF bars = << >> THEN st
    ELSE SequentialBars(AddBarLoop([st |-> st, out |-> [tf \in TfSet |-> NoBar],
                                    num_bars |-> [tf \in TfSet |-> 0],
                                    error |-> "none", raised |-> FALSE],
                                   s, Head(bars), TargetTfs, "none").st,
                        s, Tail(bars))

\* C19: with several threads calling add_bar concurrently, each feeding its own
\* symbol in timestamp order, once every call has returned the in-progress and
\* completed bars of each symbol are those of adding that symbol's bars
\* sequentially with no other thread running.
C19_ConcurrentFeedsIsolated ==
    AllFeedsIdle =>
      \A s \in AggSymbols :
        LET seq == SequentialBars([inc |-> [tf \in TfSet |-> NoBar],
                                   comp |-> [tf \in TfSet |-> << >>],
                                   cnt |-> [tf \in TfSet |-> 0],
                                   pos |-> positions],
                                  s, agg_sources[s])
        IN  /\ incomplete_bars[s] = seq.inc
            /\ complete_bars[s] = seq.comp

\* both threads have fed their symbol, the calls interleaved in arrival order,
\* and one symbol has a completed bar
C19_Witness ==
    /\ AllFeedsIdle
    /\ \A s \in AggSymbols : agg_sources[s] # << >>
    /\ Len(agg_sources["MSFT"]) >= 2
    /\ complete_bars["MSFT"]["1min"] # << >>

(***************************************************************************)
(* Claims about the 5-second feed of one session.                           *)
(***************************************************************************)
\* the twelve consecutive bars 09:30:05, 09:30:10, ..., 09:31:00 and nothing else
TwelveBarsFed == agg_sources["AAPL"] = [k \in 1..12 |-> FeedBar(k)]

\* C15: after the twelve bars 09:30:05 .. 09:31:00 there is exactly one completed
\* 1m bar, stamped 09:30:00, with open 100.0, low 99.5, high 101.6, close about
\* 101.1 (within 0.1), volume 12,000, made of 12 source bars.
C15_TwelveBarsOneMinute ==
    TwelveBarsFed =>
      /\ Len(complete_bars["AAPL"]["1min"]) = 1
      /\ LET b == complete_bars["AAPL"]["1min"][1]
         IN  /\ b.timestamp = SessionOpen
             /\ b.open = 1000 /\ b.low = 995 /\ b.high = 1016
             /\ b.close >= 1010 /\ b.close <= 1012
             /\ b.volume = 12000
      /\ add_result.num_bars["1min"] = 12

\* C15 (amended): after the twelve bars 09:30:05 .. 09:31:00 there is exactly one
\* completed 1m bar, stamped 09:30:00 and made of the eleven bars 09:30:05 ..
\* 09:30:55: open 100.0, low 99.5, high 101.5, close 101.2, volume 11,000,
\* 11 source bars; the bar of 09:31:00 has opened the 1m bar stamped 09:31:00.
C15_ElevenBarsOneMinute ==
    TwelveBarsFed =>
      /\ complete_bars["AAPL"]["1min"]
           = << Bar(SessionOpen, 1000, 1015, 995, 1012, 11000, TRUE) >>
      /\ add_result.completed["1min"] = complete_bars["AAPL"]["1min"][1]
      /\ add_result.num_bars["1min"] = 11
      /\ incomplete_bars["AAPL"]["1min"]
           = Bar(SessionOpen + 60, 1011, 1016, 1006, 1013, 1000, FALSE)
      /\ bar_counts["AAPL"]["1min"] = 1

\* the scenario has been played to its end
C15_Witness == TwelveBarsFed /\ add_result.bar = FeedBar(12)

\* every source bar of the window of timeframe tf that starts at boundary was fed
WindowDelivered(s, tf, boundary) ==
    \A j \in 0..((Seconds(tf) \div Seconds(SourceTf)) - 1) :
      \E i \in 1..Len(agg_sources[s]) :
        agg_sources[s][i].timestamp = boundary + j * Seconds(SourceTf)

\* C20: when add_bar completes a target bar and every source bar of that bar's
\* interval was delivered, in order, the number of source bars counted into it
\* is seconds(target) / seconds(source).
C20_FullWindowCount ==
    \A tf \in TfSet :
      ( /\ add_result.completed[tf].present
        /\ WindowDelivered(add_result.symbol, tf, add_result.completed[tf].timestamp) )
      => add_result.num_bars[tf] = Seconds(tf) \div Seconds(SourceTf)

\* the 1m bar of 09:30:00 was completed after all of its twelve 5-second bars
\* had been fed
C20_Witness ==
    /\ add_result.completed["1min"].present
    /\ add_result.completed["1min"].timestamp = SessionOpen
    /\ WindowDelivered("AAPL", "1min", SessionOpen)
    /\ add_result.completed["1min"].volume = 12000

(***************************************************************************)
(* Claims about the trailing scenario.                                      *)
(***************************************************************************)
\* the adjustments returned by the evaluation that just ran are exactly one
\* adjustment of the symbol to new_stop (in cents)
OneAdjustmentTo(adjs, s, new_stop) ==
    Len(adjs) = 1 /\ adjs[1].symbol = s /\ adjs[1].new_stop = RInt(new_stop)

\* C16: Long entered at 150.00, percentage trail 2.0, activation 1.5, evaluated
\* after each tick: tick 151.50 gives no adjustment; tick 153.00 activates with
\* high water 153.00 and candidate stop 149.94; tick 151.00 gives no adjustment
\* and leaves the high water; tick 155.00 gives an adjustment to 151.90.
C16_ActivationScenario ==
    [][ (last_op'.op = "tick" /\ trail_steps' = trail_steps + 1) =>
          LET s == last_op'.symbol
              c == trailing_configs[s]
              c1 == trailing_configs'[s]
              tick == last_op'.price
          IN  /\ (last_op.op = "enable" /\ tick = 15150)
                   => (last_adjustments' = << >> /\ ~c1.activated)
              /\ (last_op.op = "tick" /\ last_op.price = 15150 /\ ~c.activated
                  /\ tick = 15300)
                   => ( /\ c1.activated /\ c1.highest_price = 15300
                        /\ OneAdjustmentTo(last_adjustments', s, 14994) )
              /\ (last_op.op = "tick" /\ last_op.price = 15300 /\ c.activated
                  /\ c.highest_price = 15300 /\ tick = 15100)
                   => (last_adjustments' = << >> /\ c1.highest_price = 15300)
              /\ (last_op.op = "tick" /\ last_op.price = 15100 /\ c.activated
                  /\ c.highest_price = 15300 /\ tick = 15500)
                   => ( /\ c1.highest_price = 15500
                        /\ OneAdjustmentTo(last_adjustments', s, 15190) ) ]_vars

\* the columns that only record_trade_exit fills
ExitData(row) ==
    << row.exit_time, row.exit_price, row.exit_reason, row.realized_pnl,
       row.pnl_pct, row.risk_reward_ratio, row.hold_time_minutes >>

\* C17: in every journal state each row is returned by exactly one of
\* get_open_trades and get_closed_trades (unfiltered); get_open_trades returns
\* the rows with a null exit_time, which are the trades no exit was recorded
\* for (none of the exit columns is set), and get_closed_trades the rows with
\* an exit_time, for which all of them are set.
C17_OpenIffNoExitTime ==
    LET open == get_open_trades(trades)
        closed == get_closed_trades(trades)
    IN  /\ open \cup closed = 1..Len(trades)
        /\ open \cap closed = {}
        /\ \A id \in open :
             /\ trades[id].exit_time = Null
             /\ \A i \in 1..Len(ExitData(trades[id])) : ExitData(trades[id])[i] = Null
        /\ \A id \in closed :
             /\ trades[id].exit_time # Null
             /\ \A i \in 1..Len(ExitData(trades[id])) : ExitData(trades[id])[i] # Null

\* a journal with a trade that an exit has just closed after MAE/MFE updates
C17_Witness ==
    /\ journal_op.op = "exit"
    /\ get_closed_trades(trades) # {}
    /\ \E id \in get_closed_trades(trades) : submitted[id] # {}

\* C18: record_trade_exit for an id that record_trade_entry never returned
\* creates no row and changes no row; rows are created by record_trade_entry
\* only, so every row that carries an exit was entered strictly before.
C18_ExitNeedsEntry ==
    [][ /\ (journal_op'.op = "exit" /\ journal_op'.id \notin 1..Len(trades))
            => trades' = trades
        /\ Len(trades') # Len(trades)
            => ( /\ journal_op'.op = "entry"
                 /\ Len(trades') = Len(trades) + 1
                 /\ trades'[Len(trades')].exit_time = Null
                 /\ \A id \in 1..Len(trades) : trades'[id] = trades[id] ) ]_vars

\* an exit was just requested for an id beyond the last one while the journal
\* holds an open trade
C18_Witness ==
    /\ journal_op.op = "exit"
    /\ journal_op.id > Len(trades)
    /\ get_open_trades(trades) # {}

(***************************************************************************)
(* Refused and retired trailing configurations.                             *)
(***************************************************************************)
InvalidTrailing(ttype, amount) == ttype \notin {"percentage", "atr"} \/ amount <= 0

\* C21: enable_trailing_stop with a trailing type other than 'percentage' or 'atr',
\* or with an amount <= 0, returns normally and leaves the configs, the one of the
\* same symbol included, exactly as they were
C21_InvalidEnableRefused ==
    [][\A s \in Symbols, ttype \in TrailingTypes, amount \in TrailingAmounts,
         act \in ActivationPcts, mintrail \in MinTrails :
         (InvalidTrailing(ttype, amount)
            /\ enable_trailing_stop(s, ttype, amount, act, mintrail))
         => /\ trailing_configs' = trailing_configs
            /\ cfg_order' = cfg_order]_vars

\* an invalid enable was refused while a config of that symbol existed
C21_Witness ==
    /\ last_op.op = "enable"
    /\ ~last_op.valid
    /\ trailing_configs[last_op.symbol].present
    /\ trailing_configs[last_op.symbol].activated

\* C22: a check_and_update_stops that meets an enabled config whose symbol has no
\* open position removes that config, records no adjustment for the symbol, and
\* keeps the adjustments recorded earlier for it
C22_OrphanConfigRetired ==
    [][\A s \in Symbols :
         ( /\ last_op'.op = "check" /\ trail_steps' = trail_steps + 1
           /\ trailing_configs[s].present /\ trailing_configs[s].enabled
           /\ ~positions[s].open )
         => /\ ~trailing_configs'[s].present
            /\ \A i \in DOMAIN cfg_order' : cfg_order'[i] # s
            /\ \A i \in DOMAIN last_adjustments' : last_adjustments'[i].symbol # s
            /\ SelectSeq(adjustment_history', LAMBDA a : a.symbol = s)
                 = AdjustmentsOf(s)]_vars

\* a check retired the config of a symbol that has recorded adjustments
C22_Witness ==
    /\ last_op.op = "check"
    /\ \E s \in last_op.retired :
         /\ ~positions[s].open
         /\ ~trailing_configs[s].present
         /\ AdjustmentsOf(s) # << >>

\* C23: every stop returned by the trailing calculation is on the winning side of
\* the entry price: >= entry for a Long (BUY) position, <= entry for a Short (SELL)
C23_StopNeverPastEntry ==
    last_op.op = "check" =>
      \A i \in DOMAIN last_adjustments :
        LET a == last_adjustments[i]
            p == positions[a.symbol]
        IN  IF p.side = "BUY"
            THEN RLe(RInt(p.entry_price), a.new_stop)
            ELSE RLe(a.new_stop, RInt(p.entry_price))

(***************************************************************************)
(* Claims about the order manager.                                          *)
(***************************************************************************)
\* C24: submit_order for a symbol that is already in active_positions returns
\* failure, places no broker order, and leaves active_positions and
\* order_history unchanged; so a symbol is tracked at most once
C24_DuplicateSubmitRefused ==
    [][\A s \in OrderSymbols :
         ( /\ om_op'.op = "submit" /\ om_op'.symbol = s
           /\ n_calls' = n_calls + 1
           /\ active_positions[s].present )
         => /\ ~om_op'.success
            /\ placed_orders' = placed_orders
            /\ active_positions' = active_positions
            /\ order_history' = order_history
            /\ \A i, j \in DOMAIN order_history :
                 order_history[i].symbol = order_history[j].symbol => i = j]_vars

\* a live, allowed submit of a second order for a tracked symbol was refused
C24_Witness ==
    /\ om_op.op = "submit"
    /\ om_op.allowed /\ ~om_op.dry_run
    /\ ~om_op.success
    /\ om_op.message = "Position already exists"
    /\ active_positions[om_op.symbol].present
    /\ held_orders[om_op.symbol].status = "pending"

\* what validate_execution_allowed requires of the configuration and the session
ExecutionConditions ==
    /\ allow_execution
    /\ ib_session.connected
    /\ require_paper_trading => ib_session.port \in PaperPorts

\* C25: submit_order hands an order to the broker only if dry_run is false and
\* validate_execution_allowed holds (kill switch on, session connected, paper port
\* when paper trading is required); otherwise nothing is placed and
\* active_positions and order_history are unchanged
C25_PlacedOnlyWhenAllowed ==
    [][ ( om_op'.op = "submit" /\ n_calls' = n_calls + 1 )
        => /\ om_op'.allowed => ExecutionConditions
           /\ placed_orders' # placed_orders
                => ~om_op'.dry_run /\ om_op'.allowed /\ ExecutionConditions
           /\ ( om_op'.dry_run \/ ~om_op'.allowed )
                => /\ placed_orders' = placed_orders
                   /\ active_positions' = active_positions
                   /\ order_history' = order_history ]_vars

\* an order went to the broker on a paper session and is tracked
C25_Witness ==
    /\ om_op.op = "submit"
    /\ om_op.success /\ ~om_op.dry_run
    /\ require_paper_trading
    /\ Len(placed_orders) = 1
    /\ active_positions[om_op.symbol].status = "submitted"
    /\ order_history = << active_positions[om_op.symbol] >>

\* C26: whatever create_order_from_setup and submit_order calls were made, the
\* tracked orders number at most max_positions and their risk_amount sums to at
\* most max_total_risk x account value
C26_RiskLimitsRespected ==
    /\ Cardinality(ActiveSymbols(active_positions)) <= max_positions
    /\ \A account \in AccountValues :
         RLe(get_total_risk(active_positions),
             RMul(max_total_risk, RInt(account)))

(***************************************************************************)
(* Claims about the journal's reports and its durability.                   *)
(***************************************************************************)
RECURSIVE SumRealized(_, _)
SumRealized(rows, ids) ==
    IF ids = {} THEN 0
    ELSE LET id == CHOOSE x \in ids : TRUE
         IN  Val(rows[id].realized_pnl) + SumRealized(rows, ids \ {id})

ClosedUpTo(rows, t) == { id \in get_closed_trades(rows) : Val(rows[id].exit_time) <= t }

\* C27: get_equity_curve lists the closed trades in exit_time order, and row i
\* carries equity_i = starting_equity + the realized_pnl of the trades up to i
C27_EquityCurveIsRunningSum ==
    \A starting_equity \in StartingEquities :
      \A curve \in get_equity_curve(trades, starting_equity) :
        /\ Len(curve) = Cardinality(get_closed_trades(trades))
        /\ \A i, j \in DOMAIN curve : i < j => curve[i].exit_time <= curve[j].exit_time
        /\ \A i \in DOMAIN curve :
             /\ curve[i].equity = starting_equity + curve[i].cumulative_pnl
             /\ curve[i].cumulative_pnl
                  = curve[i].realized_pnl
                    + (IF i = 1 THEN 0 ELSE curve[i - 1].cumulative_pnl)
             /\ ( i = Len(curve) \/ curve[i].exit_time < curve[i + 1].exit_time )
                  => curve[i].equity
                       = starting_equity
                         + SumRealized(trades, ClosedUpTo(trades, curve[i].exit_time))

\* three closed trades, the one entered first closed last, with a loss in between
C27_Witness ==
    /\ Len(trades) = 3
    /\ get_closed_trades(trades) = {1, 2, 3}
    /\ Val(trades[1].exit_time) > Val(trades[2].exit_time)
    /\ Val(trades[2].realized_pnl) < 0
    /\ Val(trades[1].realized_pnl) > 0
    /\ \E curve \in get_equity_curve(trades, 100000) :
         /\ Len(curve) = 3
         /\ curve[1].equity < 100000
         /\ curve[3].equity > curve[2].equity

C29_ResetOnlyThatSymbol ==
    [][\A s \in AggSymbols :
         reset(s)
         => /\ \A tf \in TfSet :
                 /\ incomplete_bars'[s][tf] = NoBar
                 /\ complete_bars'[s][tf] = << >>
            /\ \A o \in AggSymbols \ {s} :
                 /\ incomplete_bars'[o] = incomplete_bars[o]
                 /\ complete_bars'[o] = complete_bars[o]
                 /\ bar_counts'[o] = bar_counts[o]]_vars

\* AAPL was fed and then reset while MSFT holds a completed and an in-progress bar
C29_Witness ==
    /\ n_added = 3
    /\ agg_sources["AAPL"] = << >>
    /\ Len(agg_sources["MSFT"]) = 2
    /\ \A tf \in TfSet : incomplete_bars["AAPL"][tf] = NoBar
                         /\ complete_bars["AAPL"][tf] = << >>
    /\ complete_bars["MSFT"]["1min"] # << >>
    /\ incomplete_bars["MSFT"]["1min"] # NoBar

\* C30: add_bar only appends to the completed list of a (symbol, timeframe): the
\* list before the call is a prefix of the list after it, and it grows by at most
\* one bar per call
C30_CompletedAppendOnly ==
    [][ n_added' = n_added + 1
        => \A s \in AggSymbols, tf \in TfSet :
             LET old == complete_bars[s][tf]
                 new == complete_bars'[s][tf]
             IN  /\ Len(old) <= Len(new)
                 /\ Len(new) <= Len(old) + 1
                 /\ \A i \in DOMAIN old : new[i] = old[i]
                 /\ Len(new) = Len(old) + 1
                      => /\ add_result'.symbol = s
                         /\ new[Len(new)] = add_result'.completed[tf] ]_vars

\* a second bar was appended to a completed list behind the first one
C30_Witness ==
    /\ n_added = 3
    /\ Len(complete_bars["AAPL"]["1min"]) = 2
    /\ add_result.completed["1min"] = complete_bars["AAPL"]["1min"][2]
    /\ complete_bars["AAPL"]["1min"][1] # complete_bars["AAPL"]["1min"][2]

(***************************************************************************)
(* Further claims about the trailing calculation.                           *)
(***************************************************************************)
\* improvement_pct of a recorded adjustment over the stop it replaces
ImprovementPct(side, a) ==
    LET old == StopRat(a.old_stop)
    IN  IF side = "BUY"
        THEN RMul(RDiv(RSub(a.new_stop, old), old), RInt(100))
        ELSE RMul(RDiv(RSub(old, a.new_stop), old), RInt(100))

\* C31: a stop returned for a position that already has a stop (> 0) improves on
\* it in the favourable direction by at least 0.01 % of the current stop
C31_ImprovementAtLeastOneBasisPoint ==
    \A i \in DOMAIN adjustment_history :
      LET a == adjustment_history[i]
          p == positions[a.symbol]
      IN  ( p.open /\ a.old_stop.has /\ RLt(RInt(0), StopRat(a.old_stop)) )
            => RLe([n |-> 1, d |-> 100], ImprovementPct(p.side, a))

\* a Long stop of 149.92 was raised to 149.94 (0.013 %), and so was a Short stop
\* of 149.96 lowered to 149.94 in another run
C31_Witness ==
    \E i \in DOMAIN adjustment_history :
      LET a == adjustment_history[i]
          p == positions[a.symbol]
      IN  /\ p.open /\ a.old_stop.has
          /\ a.new_stop = RInt(14994)
          /\ \/ p.side = "BUY" /\ StopRat(a.old_stop) = RInt(14992)
             \/ p.side = "SELL" /\ StopRat(a.old_stop) = RInt(14996)
          /\ RLt(ImprovementPct(p.side, a), [n |-> 2, d |-> 100])

(***************************************************************************)
(* Further claims about the journal.                                        *)
(***************************************************************************)
\* C32: once record_trade_exit has completed for a trade, no later step changes
\* the mae or the mfe of its row, whether the update_trade_mae_mfe call started
\* before the exit or after it
C32_MaeMfeFrozenAfterExit ==
    [][ \A id \in 1..Len(trades) :
          trades[id].exit_time # Null
          => ( /\ Len(trades') >= id
               /\ trades'[id].mae = trades[id].mae
               /\ trades'[id].mfe = trades[id].mfe ) ]_vars


(***************************************************************************)
(* Connection manager claims.                                               *)
(***************************************************************************)
\* C33: at most one reconnection is in progress at any time: while a
\* reconnect thread has not finished its _reconnect_loop, no trigger
\* (heartbeat loop or disconnect event) starts a second reconnect thread.
C33_AtMostOneReconnect ==
    Cardinality({r \in RThreads : ib_threads[r].pc # "none"}) <= 1

\* C34: after an explicit disconnect() has returned, and until the caller
\* invokes connect() again, the state is DISCONNECTED, there is no broker
\* handle, no heartbeat thread and no subscription, also with automatic
\* reconnection enabled.
C34_StaysDisconnectedAfterDisconnect ==
    ib_op.op = "disconnect" =>
        /\ ibm.state = "disconnected"
        /\ ibm.ib = "none"
        /\ ~ibm.heartbeat_thread
        /\ ibm.active_subscriptions = {}

\* the caller's connect(retry=True), max_reconnect_attempts > 0, has made n attempts
RetryingConnect(n) ==
    /\ ib_threads["main"].pc = "connect_loop"
    /\ ib_threads["main"].retry
    /\ ib_threads["main"].attempt = n
    /\ ibm.max_reconnect_attempts > 0

SpecIbDownFair == SpecIbDown /\ WF_vars(\E outcome \in FailingOutcomes : connect_attempt("main", outcome))

\* C35: connect(retry=True) with max_reconnect_attempts = N > 0 against a
\* gateway that fails every attempt terminates: it returns False after
\* exactly N attempts and leaves the state ERROR; it does not raise.
C35_RetryExhaustionReturnsFalse ==
    RetryingConnect(0) ~>
        /\ ib_op = IbOp("connect", "false", ibm.max_reconnect_attempts, TRUE)
        /\ ib_threads["main"].pc = "idle"
        /\ ibm.state = "error"

C35_Witness ==
    /\ ibm.max_reconnect_attempts = 2
    /\ ib_op = IbOp("connect", "false", 2, TRUE)
    /\ ibm.state = "error"
    /\ ibm.ib = "down"

(***************************************************************************)
(* Aggregator claims on the completions of one add_bar call.                *)
(***************************************************************************)
\* C36: completions are nested across timeframes: when an add_bar call returns
\* a completion for a target timeframe T, it also returns one for every
\* configured target timeframe whose length in seconds divides that of T.
C36_CompletionsNested ==
    \A T \in TfSet, t \in TfSet :
        add_result.completed[T].present /\ Seconds(T) % Seconds(t) = 0
            => add_result.completed[t].present

C36_Witness ==
    /\ add_result.completed["5min"].present
    /\ add_result.completed["1min"].present
    /\ add_result.completed["1min"].timestamp # add_result.completed["5min"].timestamp

RECURSIVE VolumeOf(_)
VolumeOf(bars) == IF bars = << >> THEN 0 ELSE Head(bars).volume + VolumeOf(Tail(bars))

\* volume held for a symbol and timeframe: completed bars plus the in-progress bar
AggregatedVolume(s, tf) ==
    VolumeOf(complete_bars[s][tf])
        + (IF incomplete_bars[s][tf].present THEN incomplete_bars[s][tf].volume ELSE 0)

\* C37: aggregation conserves volume: for every symbol and target timeframe,
\* with no clear_history (and counting from the last reset), the volumes of
\* the completed bars plus the volume of the in-progress bar add up to the
\* volumes of all source bars added for that symbol.
C37_VolumeConserved ==
    \A s \in AggSymbols, tf \in TfSet : AggregatedVolume(s, tf) = VolumeOf(agg_sources[s])

C37_Witness ==
    /\ Len(agg_sources["AAPL"]) = 3
    /\ Len(complete_bars["AAPL"]["1min"]) = 1
    /\ complete_bars["AAPL"]["1min"][1].volume = 3
    /\ complete_bars["AAPL"]["5min"] = << >>
    /\ incomplete_bars["AAPL"]["1min"].present
    /\ incomplete_bars["AAPL"]["5min"].volume = VolumeOf(agg_sources["AAPL"])

\* the smallest configured target timeframe
SmallestTf == CHOOSE tf \in TfSet : \A t \in TfSet : Seconds(tf) <= Seconds(t)

\* C38: whenever add_bar completes a bar of the smallest target timeframe
\* for a symbol, the close of that completed bar has been passed to the
\* position book's price update for that symbol when add_bar returns: an
\* open position of the symbol then carries that close as its current price.
C38_SmallestCloseForwarded ==
    [][( /\ n_added' = n_added + 1
         /\ add_result'.completed[SmallestTf].present
         /\ add_result'.symbol \in DOMAIN positions
         /\ positions[add_result'.symbol].open )
       => /\ positions'[add_result'.symbol].open
          /\ positions'[add_result'.symbol].current_price
                 = add_result'.completed[SmallestTf].close]_vars

C38_Witness ==
    /\ add_result.symbol = "AAPL"
    /\ add_result.completed[SmallestTf].present
    /\ ~add_result.completed["5min"].present
    /\ positions["AAPL"].open
    /\ positions["AAPL"].entry_price = 100
    /\ positions["AAPL"].current_price = add_result.completed[SmallestTf].close

(***************************************************************************)
(* Journal claim on the notes column.                                       *)
(***************************************************************************)
NotesOf(rows, id) == { rows[id].notes[i] : i \in 1..Len(rows[id].notes) }

\* C39: a note appended to a trade with add_trade_note remains part of that
\* trade's notes after every later journal operation on the trade
\* (add_trade_note, update_trade_mae_mfe, record_trade_exit).
C39_AppendedNoteKept ==
    [][\A id \in 1..Len(trades), note \in NoteTexts :
          note \in NotesOf(trades, id)
              => id <= Len(trades') /\ note \in NotesOf(trades', id)]_vars

====
